---------------------------- MODULE Spec2Model ----------------------------
(***************************************************************************)
(* A model of the XRT computation client                                   *)
(* (Sources/x10/xla_client/xrt_computation_client.cc).                     *)
(*                                                                         *)
(* The module holds one group of variables per part of the client and one  *)
(* specification per part:                                                 *)
(*   SpecPartition  PartitionTransferToServer as a function of the sizes   *)
(*   SpecTransfer   XrtDevice::TransferToServer: the partition senders,    *)
(*                  the converter closures and the session runner of each  *)
(*                  TransferToServerInternal call                          *)
(*   SpecHandles    the release tokens of XrtData, XrtData::Assign, the    *)
(*                  pending-release lists and the handle releaser          *)
(*   SpecCompile    Compile with the compilation cache, concurrent calls   *)
(*                  and the release tokens of the compiled programs        *)
(*   SpecChained    ExecuteChained in its two modes, ExecuteChainedXrt     *)
(*                  and ExecuteChainedSplit                                *)
(*   SpecExec       ExecuteReplicated and ExecuteParallel: CreateExecuteOps*)
(*                  and the session runners of RunComputations             *)
(*   SpecCreate     ComputationClient::Create: the topology strategies,    *)
(*                  PopulateLocalDevices and the constructor of the client *)
(***************************************************************************)
EXTENDS Integers, Sequences, FiniteSets, TLC

(***************************************************************************)
(* Bounds of the model.                                                    *)
(***************************************************************************)
\* longest tensor batch handed to PartitionTransferToServer
MaxPartTensors == 5
\* largest byte size of one tensor
MaxTensorSize == 3
\* largest value of the configured payload ceiling (XRT_MAX_TENSORS_PARTITION)
MaxCeiling == 5
\* longest tensor batch handed to XrtDevice::TransferToServer
MaxXferTensors == 3
\* largest byte size of a tensor of that batch
MaxXferSize == 2
\* largest payload ceiling of SpecTransfer
MaxXferCeiling == 3
\* XrtData objects alive at one time in SpecHandles
MaxData == 2
\* allocation handles created in one behaviour of SpecHandles
MaxHandles == 2

\* the XrtComputation objects of the release part
MaxComputations == 1

\* DeconstructTuple: the tuples of a call, the elements of a tuple, the
\* handles the tuples may have
MaxTuples == 2
MaxTupleElements == 2
MaxTupleHandles == 2

\* TensorAllocator: sizeof(void*); max_size_ in units of sizeof(void*); the
\* blocks that callers hold at a time
PointerSize == 8
MaxCacheWords == 4
MaxInUse == 2
\* longest instances vector of one Compile call
MaxInstances == 2
\* compilation handles the server hands out in one behaviour of SpecCompile
MaxCompileHandles == 3
\* largest capacity of the compilation cache (XLA_COMPILATION_CACHE_SIZE)
MaxCacheSize == 1
\* most results of Compile that are held or being produced at one time
MaxHeld == 2
\* compile RPCs issued in one behaviour of SpecCompile: as many as the
\* handles that a full cache leaves over
MaxCompileRpcs == MaxCompileHandles - MaxCacheSize
\* longest ExecuteChainedOp sequence handed to ExecuteChained
MaxChainOps == 3
\* sessions taken from the pools in one behaviour of SpecPools
MaxPoolTakes == 3
\* most handles of one TransferFromServer call
MaxReadHandles == 3
\* largest byte size of the shape of a handle
MaxReadSize == 1
\* largest XRT_MAX_TENSORS_PARTITION of a TransferFromServer call
MaxReadCeiling == 3
\* most inputs of one ExecuteChainedOp
MaxChainInputs == 1
\* longest ExecuteChainedOp sequence of ops that declare outputs
MaxOutputOps == MaxChainOps - MaxChainInputs
\* largest result_index of an output
MaxResultIndex == 1
\* longest devices vector handed to ExecuteReplicated / ExecuteParallel
MaxExecDevices == 3

VARIABLES
  \* ---- the client's options_ (set at construction, never changed)
  options,        \* [global_device_map, workers_map, default_device]
  \* ---- PartitionTransferToServer, as a function of its input
  p_sizes,        \* ByteSizeOfElements(tensors[i].shape), i = 0..n-1 (at i+1)
  p_max,          \* GetMaxTensorsPartitionSize()
  p_partitions,   \* the returned vector of start indices (0-based values)
  p_pc,           \* "call" before the call, "done" after it
  \* ---- XrtDevice::TransferToServer
  t_tensors,      \* tensors: the shape of each TensorSource (a shape is its
                  \* byte size); TensorSource i fills its buffer with data i
  t_max,          \* GetMaxTensorsPartitionSize()
  t_pc,           \* the calling thread: "call", "wait", "returned", "aborted"
  t_partitions,   \* partitions (line 665)
  t_inv,          \* one TransferToServerInternal call per partition
  t_results,      \* results of TransferToServer (0-based index i at i + 1)
  srv_next,       \* the server's next allocation handle
  srv_data,       \* the server's memory: handle -> the buffer it was made from
  \* ---- release tokens and the handle releaser
  r_obj,          \* the XrtData objects: slot -> [alive, handle_ptr]
                  \* (handle_ptr 0 is a null handle_ptr)
  r_token,        \* the XrtHandle tokens: handle -> [device, use_count]
  released_data_handles,     \* released_data_handles_
  released_compile_handles,  \* released_compile_handles_
  r_activated,    \* triggered_task_: an activation is pending
  r_run,          \* the releaser threads: thread -> [pc, kind, sessions,
                  \* locked], locked telling that the thread holds lock_
  r_rpcs,         \* history: kind -> handle -> the release RPCs that carried it
  r_queued,       \* history: handle -> times ReleaseXrtData was called with it
  r_crashed,      \* the process was ended by a failed check
  \* ---- Compile and the compilation cache
  c_cache_size,   \* the capacity compilation_cache_ was built with
  c_cache,        \* compilation_cache_: entries [key, h], most recent first
  c_token,        \* compilation handle -> [key, device, use_count, rpc]:
                  \* the XrtComputation made for the handle and its token
  c_call,         \* the threads inside Compile: thread -> its call's locals
  c_held,         \* compilation handle -> the ComputationPtr callers hold
  c_rpcs,         \* history: the compile RPCs issued
  c_done,         \* history: the cache keys some returned Compile call had
  c_evicted,      \* history: the cache keys that were evicted at some time
  \* ---- ExecuteChained
  x_split_mode,   \* XRT_SPLIT_CHAINED_EXEC is set
  x_ops,          \* ops: [computation, inputs, shape, outputs]; op i
                  \* (0-based) is x_ops[i + 1], computation FALSE for an op
                  \* that holds device_data
  x_pc,           \* "call", "plan", "loop", "run", "returned", or how the call
                  \* ended otherwise: "check_failed", "run_failed", "corrupted"
  x_i,            \* the loop index i
  x_uses,         \* uses of ExecuteChainedSplit (0-based index i at i + 1)
  x_ops_outputs,  \* ops_outputs: per op the DataPtr of its outputs
  x_plan,         \* the ops added to the XRTChainedExecutePlan
  x_result_shapes,\* result_shapes of ExecuteChainedXrt
  x_results,      \* results (result slot r at r + 1)
  x_resets,       \* history: the calls of session->Reset()
  x_rpcs,         \* history: the session Run calls, by the index of the op
                  \* (the whole plan: -1)
  \* ---- ExecuteReplicated / ExecuteParallel
  e_computations, \* computations (replica i, 0-based, at i + 1)
  e_arguments,    \* arguments: per replica its DataPtr list, a data being named
                  \* by the device it is on
  e_devices,      \* devices
  e_pc,           \* "call", "running", "returned", or how the call ended
                  \* otherwise: "check_failed", "run_failed"
  e_session_map,  \* session_map: the targets that have a session
  e_exec_ops,     \* exec_ops
  e_runners,      \* session_replicas with the state of each session_runner:
                  \* session -> [replicas, pc]
  e_results,      \* results (<<>> for a vector not set)
  e_rpcs,         \* history: the session Run calls, [session, exec_nodes]
  \* ---- ComputationClient::Create and the constructor
  k_env,          \* the environment the process was started in
  k_options,      \* options of Create, then options_ of the client
  k_pc,           \* "tpu_cluster", "device_counts", "env_devices", "mesh":
                  \* the strategy Create is about to try; "populate";
                  \* "construct", "start", "add_devices", "local_gpus": the
                  \* constructor; "ready"; "fatal"
  k_tried,        \* history: the strategies Create has run
  k_error,        \* the check that ended the construction ("" for none)
  k_started,      \* StartHandleReleaser has run
  k_devices,      \* the devices registered with AddDevice
  \* ---- TransferFromServer
  f_handles,      \* handles: the XrtData [device, size, handle] (handle i,
                  \* 0-based, at i + 1)
  f_max,          \* GetMaxTensorsPartitionSize()
  f_pc,           \* "call", "run", "returned", "failed"
  f_batch,        \* history: per handle the session map it was given
  f_work,         \* session_work_map: session -> [feed_inputs, index_mapping]
  f_done,         \* the sessions whose turn of the second loop has ended
  f_results,      \* results
  f_rpcs,         \* history: per session the number of its Run calls, each
                  \* with the feed_inputs of the session
  \* ---- the session pools
  g_caches,       \* session_cache_ and alloc_session_cache_: per pool the
                  \* targets it holds a session of
  g_taken,        \* history: [op, cache, target] of the sessions taken
  g_pc,           \* "ready" once the client is constructed
  \* ---- the computations whose handles are released
  h_held,         \* the compilation handles of the XrtComputation objects
                  \* that some caller holds
  \* ---- DeconstructTuple
  d_tuples,       \* tuples: the XrtData [device, shape, handle] (tuple i,
                  \* 0-based, at i + 1)
  d_pc,           \* "call", "run", "returned", "aborted"
  d_work,         \* session_work_map: session -> [index_mapping,
                  \* outputs_handles]
  d_done,         \* the sessions whose turn of the second loop has ended
  d_results,      \* results
  d_rpcs,         \* history: the Run calls, [session, outputs_handles]
  \* ---- TensorAllocator
  a_max,          \* max_size_
  a_size,         \* size_
  a_list,         \* alloc_list_: the AllocBlocks [alloc_key, blocks], the
                  \* front first
  a_allocs,       \* allocs_: the keys of the map (the iterator of a key
                  \* points at the AllocBlocks of that key in alloc_list_)
  a_header,       \* per block that is allocated, the AllocBlocks stored
                  \* right before its memory, by its alloc_key
  a_used,         \* the blocks that callers hold
  a_last          \* history: the last call, [op, key, block, freed]

partVars == <<p_sizes, p_max, p_partitions, p_pc>>
xferVars == <<t_tensors, t_max, t_pc, t_partitions, t_inv, t_results,
              srv_next, srv_data>>

relVars == <<r_obj, r_token, released_data_handles,
             released_compile_handles, r_activated, r_run, r_rpcs, r_queued,
             r_crashed>>

compVars == <<c_cache_size, c_cache, c_token, c_call, c_held, c_rpcs, c_done,
              c_evicted>>

chainVars == <<x_split_mode, x_ops, x_pc, x_i, x_uses, x_ops_outputs, x_plan,
               x_result_shapes, x_results, x_resets, x_rpcs>>

execVars == <<e_computations, e_arguments, e_devices, e_pc, e_session_map,
              e_exec_ops, e_runners, e_results, e_rpcs>>

createVars == <<k_env, k_options, k_pc, k_tried, k_error, k_started,
                k_devices>>

readVars == <<f_handles, f_max, f_pc, f_batch, f_work, f_done, f_results,
              f_rpcs>>

poolVars == <<g_caches, g_taken, g_pc>>

kindVars == <<h_held>>

deconVars == <<d_tuples, d_pc, d_work, d_done, d_results, d_rpcs>>

allocVars == <<a_max, a_size, a_list, a_allocs, a_header, a_used, a_last>>

vars == <<options, partVars, xferVars, relVars, compVars, chainVars,
          execVars, createVars, readVars,
          poolVars,
          kindVars,
          deconVars,
          allocVars>>

\* what the actions of one part leave alone
notPart == <<options, xferVars, relVars, compVars, chainVars, execVars,
             createVars,
             readVars,
             poolVars,
             kindVars,
             deconVars,
             allocVars>>
notXfer == <<options, partVars, relVars, compVars, chainVars, execVars,
             createVars,
             readVars,
             poolVars,
             kindVars,
             deconVars,
             allocVars>>
notRel == <<options, partVars, xferVars, compVars, chainVars, execVars,
            createVars,
            readVars,
            poolVars,
            kindVars,
            deconVars,
            allocVars>>
notChain == <<options, partVars, xferVars, relVars, compVars, execVars,
              createVars,
              readVars,
              poolVars,
              kindVars,
              deconVars,
              allocVars>>
notExec == <<options, partVars, xferVars, relVars, compVars, chainVars,
             createVars,
             readVars,
             poolVars,
             kindVars,
             deconVars,
             allocVars>>
notCreate == <<options, partVars, xferVars, relVars, compVars, chainVars,
               execVars, readVars,
               poolVars,
               kindVars,
               deconVars,
               allocVars>>
notRead == <<options, partVars, xferVars, relVars, compVars, chainVars,
             execVars, createVars,
             poolVars,
             kindVars,
             deconVars,
             allocVars>>
\* Compile reaches the releaser through released_compile_handles_ and the
\* activation of triggered_task_ only
notComp == <<options, partVars, xferVars, r_obj, r_token,
             released_data_handles, r_run, r_rpcs, r_queued, r_crashed,
             chainVars, execVars, createVars, readVars,
             poolVars,
             kindVars,
             deconVars,
             allocVars>>
notPool == <<options, partVars, xferVars, relVars, compVars, chainVars, execVars, createVars, readVars,
             kindVars,
             deconVars,
             allocVars>>
\* all but the release part and the held computations
notKind == <<options, partVars, xferVars, compVars, chainVars, execVars, createVars, readVars, poolVars,
             deconVars,
             allocVars>>
notDecon == <<options, partVars, xferVars, relVars, compVars, chainVars, execVars, createVars, readVars, poolVars, kindVars,
              allocVars>>
notAlloc == <<options, partVars, xferVars, relVars, compVars, chainVars, execVars, createVars, readVars, poolVars, kindVars, deconVars>>

(***************************************************************************)
(* Helpers on sequences.                                                   *)
(***************************************************************************)
Range(s) == {s[k] : k \in 1..Len(s)}

SeqsUpTo(S, n) == UNION {[1..k -> S] : k \in 0..n}

RECURSIVE SumSeq(_)
SumSeq(s) == IF s = <<>> THEN 0 ELSE s[1] + SumSeq(Tail(s))

(***************************************************************************)
(* Devices, workers and the client's options_.                             *)
(*                                                                         *)
(* A device name "KIND:ORDINAL" is the record [kind, ordinal]; the empty   *)
(* name is [kind |-> "", ordinal |-> -1] and an ordinal-only name ":N" is  *)
(* [kind |-> "", ordinal |-> N].  An XRT device path                       *)
(* "/job:J/replica:0/task:T/device:TYPE:ID" is the record [job, task,      *)
(* type, id], so that parsing it (ParseFullXrtDevice) reads its fields.    *)
(***************************************************************************)
Device(kind, ordinal) == [kind |-> kind, ordinal |-> ordinal]

EmptyDevice == [kind |-> "", ordinal |-> -1]

\* GetXrtDevicePath, lines 300-304
GetXrtDevicePath(worker, task_no, device_type, ordinal) ==
  [job |-> worker, task |-> task_no, type |-> device_type, id |-> ordinal]

\* XrtComputationClient::Worker
Worker(name, task_no) == [name |-> name, task_no |-> task_no]

\* The options_ of a client whose TPU devices 0..n-1 sit one per task of job
\* "w" (as AddXrtHostDevices lays them out, lines 410-420), task t being served
\* at address addr[t + 1].
OneDevicePerTask(addr) ==
  [global_device_map |->
     [d \in {Device("TPU", t - 1) : t \in DOMAIN addr} |->
        GetXrtDevicePath("w", d.ordinal, "TPU", 0)],
   workers_map |->
     [w \in {Worker("w", t - 1) : t \in DOMAIN addr} |-> addr[w.task_no + 1]],
   default_device |-> Device("TPU", 0)]

\* GetEffectiveDevice, lines 1277-1290
GetEffectiveDevice(device) ==
  IF device = EmptyDevice THEN options.default_device
  ELSE IF device.kind = ""
    THEN Device(options.default_device.kind, device.ordinal)
    ELSE device

\* SwiftDeviceToXrtDevice, lines 1292-1299 (the XLA_CHECK holds for the devices
\* of the global map)
SwiftDeviceToXrtDevice(device) ==
  options.global_device_map[GetEffectiveDevice(device)]

\* GetWorkerForXrtDevice, lines 1520-1530: the worker and its RPC target
GetWorkerForXrtDevice(xrt_device) ==
  LET worker == Worker(xrt_device.job, xrt_device.task)
  IN  <<worker, options.workers_map[worker]>>

\* GetWorkerForDevice, lines 1532-1535
GetWorkerForDevice(device) == GetWorkerForXrtDevice(SwiftDeviceToXrtDevice(device))

\* GetSessionForDevice / GetSessionForXrtDevice / GetSessionForTarget, lines
\* 1257-1275: within one call (one session_map) the session is the one of the
\* worker's RPC target, so a session is named by its target
GetSessionForXrtDevice(xrt_device) == GetWorkerForXrtDevice(xrt_device)[2]

GetSessionForDevice(device) == GetSessionForXrtDevice(SwiftDeviceToXrtDevice(device))

(***************************************************************************)
(* PartitionTransferToServer (lines 640-660).  Indices are the code's      *)
(* 0-based indices; tensor i has its size at sizes[i + 1].                 *)
(***************************************************************************)
\* the test of line 647 with the comparison taken after the fact
ExceedsAfter(current_size, tensor_size, max_partition_size) ==
  current_size > max_partition_size

\* the test of line 647 with >= for >
ExceedsOrEqual(current_size, tensor_size, max_partition_size) ==
  current_size + tensor_size >= max_partition_size

\* line 647: current_size + tensor_size > max_partition_size
PartitionExceeds(current_size, tensor_size, max_partition_size) ==
  current_size + tensor_size > max_partition_size

\* the for loop of lines 645-655, from index i on
RECURSIVE PartitionLoop(_, _, _, _, _)
PartitionLoop(sizes, max_partition_size, i, current_size, partitions) ==
  IF i >= Len(sizes) THEN partitions
  ELSE
    LET tensor_size == sizes[i + 1]
        split == PartitionExceeds(current_size, tensor_size, max_partition_size)
        withZero == IF partitions = <<>> /\ i > 0
                      THEN Append(partitions, 0) ELSE partitions
    IN  IF split
          THEN PartitionLoop(sizes, max_partition_size, i + 1,
                             tensor_size, Append(withZero, i))
          ELSE PartitionLoop(sizes, max_partition_size, i + 1,
                             current_size + tensor_size, partitions)

PartitionTransferToServer(sizes, max_partition_size) ==
  LET partitions == PartitionLoop(sizes, max_partition_size, 0, 0, <<>>)
  IN  IF partitions = <<>> THEN <<0>> ELSE partitions

\* the sender's arithmetic of lines 677-680: partition k (1-based position in
\* the vector) starts at base_index and holds length tensors
PartitionBase(partitions, k) == partitions[k]

PartitionLength(partitions, k, n) ==
  IF k + 1 <= Len(partitions)
    THEN partitions[k + 1] - partitions[k]
    ELSE n - partitions[k]

(***************************************************************************)
(* SpecPartition: the inputs are drawn in Init, the one action applies the *)
(* function.                                                               *)
(***************************************************************************)
PartIdle ==
  /\ p_sizes = <<>>
  /\ p_max = 1
  /\ p_partitions = <<>>
  /\ p_pc = "off"

PartInit ==
  /\ p_sizes \in SeqsUpTo(0..MaxTensorSize, MaxPartTensors)
  /\ p_max \in 1..MaxCeiling
  /\ p_partitions = <<>>
  /\ p_pc = "call"

PartCall ==
  /\ p_pc = "call"
  /\ p_partitions' = PartitionTransferToServer(p_sizes, p_max)
  /\ p_pc' = "done"
  /\ UNCHANGED <<p_sizes, p_max>>
  /\ UNCHANGED notPart

PartNext == PartCall

(***************************************************************************)
(* Claims on PartitionTransferToServer.                                    *)
(***************************************************************************)
\* the sizes of the tensors of partition k of the result
PartSizes(k) ==
  SubSeq(p_sizes, PartitionBase(p_partitions, k) + 1,
         PartitionBase(p_partitions, k)
           + PartitionLength(p_partitions, k, Len(p_sizes)))

\* C2: no partition of the result has a summed size above the ceiling, except
\* a partition made of one tensor whose own size is above the ceiling.
C2_PartitionWithinCeiling ==
  p_pc = "done" =>
    \A k \in 1..Len(p_partitions) :
      \/ SumSeq(PartSizes(k)) <= p_max
      \/ Len(PartSizes(k)) = 1 /\ PartSizes(k)[1] > p_max

C2_Witness ==
  /\ p_pc = "done"
  /\ Len(p_partitions) >= 3
  /\ \E k \in 1..Len(p_partitions) :
       Len(PartSizes(k)) = 1 /\ PartSizes(k)[1] > p_max
  /\ \E k \in 1..Len(p_partitions) :
       Len(PartSizes(k)) >= 2 /\ SumSeq(PartSizes(k)) = p_max

\* the start index of the partition that holds tensor i - 1, read off the result
CurrentStart(i) ==
  LET before == {b \in Range(p_partitions) : b < i}
  IN  CHOOSE b \in before : \A c \in before : c <= b

\* the summed size of tensors CurrentStart(i) .. i - 1
RunningSize(i) == SumSeq(SubSeq(p_sizes, CurrentStart(i) + 1, i))

\* C3: the result is a non-empty, strictly increasing list of start indices
\* that begins at 0 and covers every tensor exactly once, and a partition
\* starts at index i > 0 exactly when the running size of the current partition
\* plus the size of tensor i is above the ceiling.
C3_GreedyBoundaries ==
  p_pc = "done" =>
    /\ Len(p_partitions) >= 1
    /\ p_partitions[1] = 0
    /\ \A k \in 1..(Len(p_partitions) - 1) : p_partitions[k] < p_partitions[k + 1]
    /\ \A t \in 0..(Len(p_sizes) - 1) :
         Cardinality({k \in 1..Len(p_partitions) :
            /\ PartitionBase(p_partitions, k) <= t
            /\ t < PartitionBase(p_partitions, k)
                     + PartitionLength(p_partitions, k, Len(p_sizes))}) = 1
    /\ \A i \in 1..(Len(p_sizes) - 1) :
         (i \in Range(p_partitions)) <=> (RunningSize(i) + p_sizes[i + 1] > p_max)
    /\ (p_sizes = <<>> => p_partitions = <<0>>)

\* five tensors of 0.4 * ceiling each: partitions of 2, 2 and 1 tensors
C3_Witness ==
  /\ p_pc = "done"
  /\ p_max = 5
  /\ p_sizes = <<2, 2, 2, 2, 2>>
  /\ p_partitions = <<0, 2, 4>>

(***************************************************************************)
(* XrtDevice::TransferToServer (lines 662-691) and                         *)
(* TransferToServerInternal (lines 693-762).                               *)
(*                                                                         *)
(* t_inv[k] is the TransferToServerInternal call made for partition k; on  *)
(* the fast path (one partition) it is the call made by the calling thread.*)
(*   pc            "convert": the converter closures are scheduled and the *)
(*                 call waits in mwait.Wait() (line 736); "run": the       *)
(*                 session runners are scheduled and the call waits in     *)
(*                 mwait.Wait() (line 760); "ran": the call has its        *)
(*                 results; "done": the sender has stored them (line 684)  *)
(*   converters    the local indices whose converter has not run yet       *)
(*   session_work  session_work_map: the device has one session, so the    *)
(*                 map holds no entry or one; the entry is the sequence of *)
(*                 its nodes, node j being [li |-> index_mapping[j],       *)
(*                 tensor |-> the buffer fed to the node's holder]         *)
(*   results       results of the call, NoData where not yet written       *)
(*   rpcs          the number of session Run calls of the call             *)
(*   by            "caller" when the calling thread made the call (line    *)
(*                 669), "sender" when a sender closure did (line 679)     *)
(***************************************************************************)
NoData == [shape |-> -1, handle |-> -1]

\* std::make_shared<XrtData>(device, shape, handle), line 753
XrtData(shape, handle) == [shape |-> shape, handle |-> handle]

XferIdle ==
  /\ t_tensors = <<>>
  /\ t_max = 1
  /\ t_pc = "off"
  /\ t_partitions = <<>>
  /\ t_inv = <<>>
  /\ t_results = <<>>
  /\ srv_next = 0
  /\ srv_data = <<>>

XferInit ==
  /\ t_tensors \in SeqsUpTo(1..MaxXferSize, MaxXferTensors)
  /\ t_max \in 1..MaxXferCeiling
  /\ t_pc = "call"
  /\ t_partitions = <<>>
  /\ t_inv = <<>>
  /\ t_results = <<>>
  /\ srv_next = 1
  /\ srv_data = <<>>

\* the state of TransferToServerInternal(tensors.subspan(base, length)) once its
\* converters are scheduled (lines 698-735)
InternalStart(base, length, by) ==
  [base |-> base, length |-> length, pc |-> "convert",
   converters |-> 0..(length - 1), session_work |-> <<>>,
   results |-> [r \in 1..length |-> NoData], rpcs |-> 0, by |-> by]

\* every batch goes through the sender closures
NeverFastPath(partitions) == FALSE

\* line 666: partitions.size() == 1
FastPath(partitions) == Len(partitions) = 1

\* lines 665-688: partition, then either the direct call or one sender closure
\* per partition
XferCall ==
  /\ t_pc = "call"
  /\ LET partitions == PartitionTransferToServer(t_tensors, t_max)
         n == Len(t_tensors)
     IN  /\ t_partitions' = partitions
         /\ t_inv' = [k \in 1..Len(partitions) |->
                        InternalStart(PartitionBase(partitions, k),
                                      PartitionLength(partitions, k, n),
                                      IF FastPath(partitions) THEN "caller"
                                      ELSE "sender")]
         /\ t_results' = [i \in 1..n |-> NoData]
  /\ t_pc' = "wait"
  /\ UNCHANGED <<t_tensors, t_max, srv_next, srv_data>>
  /\ UNCHANGED notXfer

\* the buffer converter li of call k feeds: tensors[i].populate_fn fills it with
\* the data of the call's tensors[li], which is tensor base + li of the batch
PopulatedTensor(k, li) ==
  [data |-> t_inv[k].base + li, shape |-> t_tensors[t_inv[k].base + li + 1]]

\* the converter closure of lines 708-733
XferConverter(k, li) ==
  /\ t_pc = "wait"
  /\ t_inv[k].pc = "convert"
  /\ li \in t_inv[k].converters
  /\ t_inv' = [t_inv EXCEPT
       ![k].converters = @ \ {li},
       ![k].session_work = Append(@, [li |-> li, tensor |-> PopulatedTensor(k, li)])]
  /\ UNCHANGED <<t_tensors, t_max, t_pc, t_partitions, t_results, srv_next, srv_data>>
  /\ UNCHANGED notXfer

\* session_work_map.size()
SessionWorkMapSize(session_work) == IF session_work = <<>> THEN 0 ELSE 1

\* the runners are scheduled without waiting for the converters
XferConvertNoWait(k) ==
  /\ t_pc = "wait"
  /\ t_inv[k].pc = "convert"
  /\ t_inv' = [t_inv EXCEPT ![k].pc =
       IF SessionWorkMapSize(t_inv[k].session_work) = 0 THEN "ran" ELSE "run"]
  /\ UNCHANGED <<t_tensors, t_max, t_pc, t_partitions, t_results, srv_next, srv_data>>
  /\ UNCHANGED notXfer

\* lines 736-759: mwait.Wait() returns once every converter has completed, then
\* one runner per session is scheduled
XferConvertWait(k) ==
  /\ t_pc = "wait"
  /\ t_inv[k].pc = "convert"
  /\ t_inv[k].converters = {}
  /\ t_inv' = [t_inv EXCEPT ![k].pc =
       IF SessionWorkMapSize(t_inv[k].session_work) = 0 THEN "ran" ELSE "run"]
  /\ UNCHANGED <<t_tensors, t_max, t_pc, t_partitions, t_results, srv_next, srv_data>>
  /\ UNCHANGED notXfer

\* results[i] = outputs[i], without the index mapping
ResultIndexDirect(index_mapping, i) == i - 1

\* line 752: li = session_work->index_mapping[i] (i is 1-based here)
ResultIndex(index_mapping, i) == index_mapping[i]

\* The allocation RPC on the server: output j is a new handle for the buffer
\* fed to node j.
ServerAllocate(session_work, next) ==
  [j \in 1..Len(session_work) |-> next + j - 1]

\* lines 745-757, the Run succeeding
XferRunner(k) ==
  /\ t_pc = "wait"
  /\ t_inv[k].pc = "run"
  /\ LET session_work == t_inv[k].session_work
         index_mapping == [j \in 1..Len(session_work) |-> session_work[j].li]
         outputs == ServerAllocate(session_work, srv_next)
         written == {ResultIndex(index_mapping, i) : i \in 1..Len(outputs)}
         OutputOf(li) == CHOOSE i \in 1..Len(outputs) :
                           /\ ResultIndex(index_mapping, i) = li
                           /\ \A i2 \in 1..Len(outputs) :
                                ResultIndex(index_mapping, i2) = li => i2 <= i
     IN  /\ srv_next' = srv_next + Len(outputs)
         /\ srv_data' = srv_data \o [j \in 1..Len(outputs) |-> session_work[j].tensor]
         /\ t_inv' = [t_inv EXCEPT
              ![k].pc = "ran",
              ![k].rpcs = @ + 1,
              ![k].results = [r \in 1..t_inv[k].length |->
                 IF (r - 1) \in written
                   THEN XrtData(t_tensors[t_inv[k].base + r], outputs[OutputOf(r - 1)])
                   ELSE @[r]]]
  /\ UNCHANGED <<t_tensors, t_max, t_pc, t_partitions, t_results>>
  /\ UNCHANGED notXfer

\* line 747: XLA_CHECK_OK on a failed Run ends the process
XferRunnerFail(k) ==
  /\ t_pc = "wait"
  /\ t_inv[k].pc = "run"
  /\ t_inv' = [t_inv EXCEPT ![k].rpcs = @ + 1]
  /\ t_pc' = "aborted"
  /\ UNCHANGED <<t_tensors, t_max, t_partitions, t_results, srv_next, srv_data>>
  /\ UNCHANGED notXfer

\* line 669: the fast path returns the results of the one direct call
XferDirectReturn ==
  /\ t_pc = "wait"
  /\ FastPath(t_partitions)
  /\ t_inv[1].pc = "ran"
  /\ t_results' = t_inv[1].results
  /\ t_inv' = [t_inv EXCEPT ![1].pc = "done"]
  /\ t_pc' = "returned"
  /\ UNCHANGED <<t_tensors, t_max, t_partitions, srv_next, srv_data>>
  /\ UNCHANGED notXfer

\* lines 681-685: the sender stores its partition's results
XferSenderStore(k) ==
  /\ t_pc = "wait"
  /\ ~FastPath(t_partitions)
  /\ t_inv[k].pc = "ran"
  /\ t_results' = [i \in 1..Len(t_results) |->
       IF i - 1 >= t_inv[k].base /\ i - 1 < t_inv[k].base + t_inv[k].length
         THEN t_inv[k].results[i - t_inv[k].base]
         ELSE t_results[i]]
  /\ t_inv' = [t_inv EXCEPT ![k].pc = "done"]
  /\ UNCHANGED <<t_tensors, t_max, t_pc, t_partitions, srv_next, srv_data>>
  /\ UNCHANGED notXfer

\* lines 689-690: mwait.Wait() returns once every sender has completed
XferReturn ==
  /\ t_pc = "wait"
  /\ ~FastPath(t_partitions)
  /\ \A k \in 1..Len(t_inv) : t_inv[k].pc = "done"
  /\ t_pc' = "returned"
  /\ UNCHANGED <<t_tensors, t_max, t_partitions, t_inv, t_results, srv_next, srv_data>>
  /\ UNCHANGED notXfer

XferNext ==
  \/ XferCall
  \/ \E k \in 1..Len(t_inv) : \E li \in 0..(MaxXferTensors + 1) : XferConverter(k, li)
  \/ \E k \in 1..Len(t_inv) : XferConvertWait(k)
  \/ \E k \in 1..Len(t_inv) : XferRunner(k)
  \/ \E k \in 1..Len(t_inv) : XferRunnerFail(k)
  \/ XferDirectReturn
  \/ \E k \in 1..Len(t_inv) : XferSenderStore(k)
  \/ XferReturn

(***************************************************************************)
(* Claims on TransferToServer.                                             *)
(***************************************************************************)
\* C1: the list TransferToServer returns has the length of the input, and
\* results[i] is the device handle the server created from the buffer of
\* tensors[i], with the shape of tensors[i], for every i.
C1_TransferOrderPreserved ==
  t_pc = "returned" =>
    /\ Len(t_results) = Len(t_tensors)
    /\ \A i \in 1..Len(t_tensors) :
         /\ t_results[i] # NoData
         /\ t_results[i].shape = t_tensors[i]
         /\ t_results[i].handle \in 1..Len(srv_data)
         /\ srv_data[t_results[i].handle].data = i - 1

\* a returned batch of two partitions in which the converters of one partition
\* ran out of order and the second partition's RPC ran first
C1_Witness ==
  /\ t_pc = "returned"
  /\ Len(t_partitions) = 2
  /\ Len(t_tensors) = 3
  /\ t_tensors[1] # t_tensors[3]
  /\ \E k \in 1..Len(t_inv) :
       /\ Len(t_inv[k].session_work) = 2
       /\ t_inv[k].session_work[1].li = 1
  /\ t_results[3].handle < t_results[1].handle

\* C14 (as stated): a single tensor whose byte size alone exceeds the payload
\* ceiling is surfaced as a protocol-limit error and is not sent in an RPC as
\* its own partition. Refuted under SpecTransfer: PartitionTransferToServer
\* makes such a tensor a partition of its own (lines 647-652) and
\* TransferToServerInternal sends it; no size is compared to the ceiling
\* anywhere else.
C14_OversizedNotSent ==
  \A j \in DOMAIN srv_data : srv_data[j].shape <= t_max

\* C14, what the code does: the call returns a handle for the oversized
\* tensor, which an allocation RPC carried alone
C14_OversizedSentAlone ==
  /\ t_pc = "returned"
  /\ \E k \in DOMAIN t_inv :
       /\ t_inv[k].length = 1
       /\ t_tensors[t_inv[k].base + 1] > t_max
       /\ t_inv[k].rpcs = 1
       /\ t_results[t_inv[k].base + 1] # NoData

\* C15: a TransferToServerInternal call (one per partition) issues at most one
\* RPC for its session, and a non-empty batch that forms a single partition is
\* transferred by one TransferToServerInternal call over the whole batch, made
\* by the calling thread and not by a sender closure, with exactly one RPC.
C15_OneRpcPerPartition ==
  /\ \A k \in DOMAIN t_inv :
       /\ t_inv[k].rpcs <= SessionWorkMapSize(t_inv[k].session_work)
       /\ t_inv[k].pc \in {"ran", "done"} =>
            t_inv[k].rpcs = SessionWorkMapSize(t_inv[k].session_work)
  /\ (t_pc \in {"wait", "returned"} /\ Len(t_partitions) = 1) =>
       /\ Len(t_inv) = 1
       /\ t_inv[1].by = "caller"
       /\ t_inv[1].base = 0
       /\ t_inv[1].length = Len(t_tensors)
  /\ (t_pc = "returned" /\ Len(t_partitions) = 1 /\ t_tensors # <<>>) =>
       /\ t_inv[1].rpcs = 1
       /\ Len(srv_data) = Len(t_tensors)

\* three tensors under the ceiling, transferred by the calling thread with
\* one RPC
C15_Witness ==
  /\ t_pc = "returned"
  /\ Len(t_tensors) = 3
  /\ Len(t_partitions) = 1
  /\ t_inv[1].by = "caller"
  /\ t_inv[1].rpcs = 1

(***************************************************************************)
(* Release tokens (XrtData::XrtData lines 98-104, XrtData::Assign lines    *)
(* 585-590) and the handle releaser (lines 1423-1518).                     *)
(*                                                                         *)
(* An XrtData owns handle_ptr, a shared_ptr to an XrtHandle token; the     *)
(* token of handle h is r_token[h], use_count being the shared_ptr's       *)
(* reference count.  When the count reaches 0 the token's releaser runs    *)
(* ReleaseXrtData(device, handle).                                         *)
(***************************************************************************)
DataSlots == 1..MaxData

ReleaserThreads == {"t1", "t2"}

\* the options_ of a client of two devices: the two devices behind one RPC target, or
\* behind one target each
TwoDeviceTopologies ==
  {OneDevicePerTask(<<"grpc://a", "grpc://a">>),
   OneDevicePerTask(<<"grpc://a", "grpc://b">>)}

IdleRunner ==
  [pc |-> "idle", kind |-> "data", sessions |-> <<>>, locked |-> FALSE]

RelIdle ==
  /\ r_obj = <<>>
  /\ r_token = <<>>
  /\ released_data_handles = <<>>
  /\ released_compile_handles = <<>>
  /\ r_activated = FALSE
  /\ r_run = <<>>
  /\ r_rpcs = <<>>
  /\ r_queued = <<>>
  /\ r_crashed = FALSE

RelInit ==
  /\ r_obj = [a \in DataSlots |-> [alive |-> FALSE, handle_ptr |-> 0]]
  /\ r_token = <<>>
  /\ released_data_handles = <<>>
  /\ released_compile_handles = <<>>
  /\ r_activated = FALSE
  /\ r_run = [t \in ReleaserThreads |-> IdleRunner]
  /\ r_rpcs = [kind \in {"data", "compile"} |->
                 [h \in 1..MaxHandles |-> 0]]
  /\ r_queued = <<>>
  /\ r_crashed = FALSE

\* shared_ptr: one reference to token h more / less (0 is the null pointer)
AddRef(token, h) ==
  IF h = 0 THEN token ELSE [token EXCEPT ![h].use_count = @ + 1]

DropRef(token, h) ==
  IF h = 0 THEN token ELSE [token EXCEPT ![h].use_count = @ - 1]

\* the pointer is copied without a reference being taken on the new token
AssignWithoutSharing(token, old, new) == DropRef(token, old)

\* line 588: handle_ptr = xrt_data.handle_ptr, on the reference counts
AssignHandlePtr(token, old, new) == DropRef(AddRef(token, new), old)

\* std::mutex lock_: no thread holds it.  The threads that drop references
\* hold it for the append of ReleaseHandle only (lines 1501-1504), which is
\* within one step of the model.
LockFree == \A t \in DOMAIN r_run : ~r_run[t].locked

\* the handle is dropped without being put on the pending list
ReleaseHandleForgets(handle, device, handles) == handles

\* ReleaseHandle, lines 1498-1506: the append (triggered_task_->Activate() is
\* the r_activated' = TRUE of the actions that use it)
ReleaseHandle(handle, device, handles) ==
  Append(handles, [device |-> device, handle |-> handle])

\* The effect of the token counts going from r_token to token: the token of
\* handle h (if any) whose count reached 0 runs its releaser, lines 101-104,
\* ReleaseXrtData, lines 1508-1512.
TokenStep(token, h) ==
  LET expired == h # 0 /\ r_token[h].use_count > 0 /\ token[h].use_count = 0
  IN  /\ expired => LockFree
      /\ r_token' = token
      /\ released_data_handles' =
           IF expired
             THEN ReleaseHandle(h, r_token[h].device, released_data_handles)
             ELSE released_data_handles
      /\ r_activated' = (r_activated \/ expired)
      /\ r_queued' = IF expired THEN [r_queued EXCEPT ![h] = @ + 1] ELSE r_queued

\* a result of a transfer or of an execution: std::make_shared<XrtData>(device,
\* shape, handle) with a handle the server has just created (lines 98-104)
NewData(a, device) ==
  /\ ~r_crashed
  /\ ~r_obj[a].alive
  /\ Len(r_token) < MaxHandles
  /\ LET h == Len(r_token) + 1
     IN  /\ r_obj' = [r_obj EXCEPT ![a] = [alive |-> TRUE, handle_ptr |-> h]]
         /\ r_token' = Append(r_token, [device |-> device, use_count |-> 1])
         /\ r_queued' = Append(r_queued, 0)
  /\ UNCHANGED <<released_data_handles, released_compile_handles,
                 r_activated, r_run, r_rpcs, r_crashed>>
  /\ UNCHANGED notRel

\* CreateDataPlaceholder, lines 60-62: an XrtData with no handle
NewPlaceholder(a) ==
  /\ ~r_crashed
  /\ ~r_obj[a].alive
  /\ r_obj' = [r_obj EXCEPT ![a] = [alive |-> TRUE, handle_ptr |-> 0]]
  /\ UNCHANGED <<r_token, released_data_handles,
                 released_compile_handles, r_activated, r_run, r_rpcs,
                 r_queued, r_crashed>>
  /\ UNCHANGED notRel

\* a.Assign(b), lines 585-590
AssignData(a, b) ==
  /\ ~r_crashed
  /\ r_obj[a].alive /\ r_obj[b].alive
  /\ IF a # b
       THEN /\ r_obj' = [r_obj EXCEPT ![a].handle_ptr = r_obj[b].handle_ptr]
            /\ TokenStep(AssignHandlePtr(r_token, r_obj[a].handle_ptr,
                                         r_obj[b].handle_ptr),
                         r_obj[a].handle_ptr)
       ELSE UNCHANGED <<r_obj, r_token, released_data_handles, r_activated,
                        r_queued>>
  /\ UNCHANGED <<released_compile_handles, r_run, r_rpcs, r_crashed>>
  /\ UNCHANGED notRel

\* the last DataPtr to XrtData a is dropped: ~XrtData releases handle_ptr
DestroyData(a) ==
  /\ ~r_crashed
  /\ r_obj[a].alive
  /\ r_obj' = [r_obj EXCEPT ![a] = [alive |-> FALSE, handle_ptr |-> 0]]
  /\ TokenStep(DropRef(r_token, r_obj[a].handle_ptr), r_obj[a].handle_ptr)
  /\ UNCHANGED <<released_compile_handles, r_run, r_rpcs, r_crashed>>
  /\ UNCHANGED notRel

\* the grouping keeps the handles of the first handle's session only
GroupOfFirstSession(released_handles) ==
  LET first == GetSessionForDevice(released_handles[1].device)
      Keep(e) == GetSessionForDevice(e.device) = first
  IN  [ss \in {first} |-> SelectSeq(released_handles, Keep)]

\* session_handles_map of ReleaseHandles, lines 1438-1443: the drained handles
\* grouped by session, each group in the order of the drained list
GroupBySession(released_handles) ==
  LET SessionOf(e) == GetSessionForDevice(e.device)
      sessions == {SessionOf(released_handles[i]) : i \in 1..Len(released_handles)}
      OfSession(ss) == LET Keep(e) == SessionOf(e) = ss
                       IN  SelectSeq(released_handles, Keep)
  IN  [ss \in sessions |-> OfSession(ss)]

\* The release RPC of lines 1448-1464 for one session: the handles tensor holds
\* the handles of the session's group (line 1453); rpcs counts, per handle, the
\* RPCs of this kind that carried it.
ReleaseRpc(rpcs, kind, session_handles) ==
  LET Times(h) == Cardinality({i \in 1..Len(session_handles) :
                                 session_handles[i].handle = h})
  IN  [rpcs EXCEPT ![kind] = [h \in DOMAIN @ |-> @[h] + Times(h)]]

\* HandleReleaser, lines 1479-1496: after the data handles the compile handles,
\* then the pass is over
AfterKind(kind) ==
  IF kind = "data"
    THEN [pc |-> "swap", kind |-> "compile", sessions |-> <<>>,
          locked |-> FALSE]
    ELSE IdleRunner

\* the lock is kept after the block of the swap
StillLocked(run) == run

\* line 1433: the block of the lock_guard ends
Unlock(run) == [run EXCEPT !.locked = FALSE]

\* TriggeredTask: a releaser thread waiting for an activation takes it and runs
\* HandleReleaser
RunnerWake(t) ==
  /\ ~r_crashed
  /\ r_run[t].pc = "idle"
  /\ r_activated
  /\ r_activated' = FALSE
  /\ r_run' = [r_run EXCEPT ![t] = [pc |-> "swap", kind |-> "data",
                                     sessions |-> <<>>, locked |-> FALSE]]
  /\ UNCHANGED <<r_obj, r_token, released_data_handles,
                 released_compile_handles, r_rpcs, r_queued, r_crashed>>
  /\ UNCHANGED notRel

\* ReleaseHandles, line 1431: the releaser thread takes lock_
RunnerLock(t) ==
  /\ ~r_crashed
  /\ r_run[t].pc = "swap"
  /\ LockFree
  /\ r_run' = [r_run EXCEPT ![t].locked = TRUE]
  /\ UNCHANGED <<r_obj, r_token, released_data_handles,
                 released_compile_handles, r_activated, r_rpcs, r_queued,
                 r_crashed>>
  /\ UNCHANGED notRel

\* ReleaseHandles, lines 1432-1443: the swap under lock_, the end of the
\* lock_guard's block, and the grouping
RunnerSwap(t) ==
  /\ ~r_crashed
  /\ r_run[t].pc = "swap"
  /\ r_run[t].locked
  /\ LET kind == r_run[t].kind
         released_handles == IF kind = "data" THEN released_data_handles
                             ELSE released_compile_handles
     IN  /\ IF kind = "data"
              THEN /\ released_data_handles' = <<>>
                   /\ UNCHANGED released_compile_handles
              ELSE /\ released_compile_handles' = <<>>
                   /\ UNCHANGED released_data_handles
         /\ r_run' = [r_run EXCEPT ![t] =
              IF released_handles = <<>> THEN AfterKind(kind)
              ELSE Unlock([pc |-> "rpc", kind |-> kind,
                           sessions |-> GroupBySession(released_handles),
                           locked |-> r_run[t].locked])]
  /\ UNCHANGED <<r_obj, r_token, r_activated, r_rpcs, r_queued,
                 r_crashed>>
  /\ UNCHANGED notRel

\* lines 1444-1466: the release RPC of one session of the pass succeeds
RunnerRpc(t, session) ==
  /\ ~r_crashed
  /\ r_run[t].pc = "rpc"
  /\ session \in DOMAIN r_run[t].sessions
  /\ LET kind == r_run[t].kind
         left == [ss \in DOMAIN r_run[t].sessions \ {session} |->
                    r_run[t].sessions[ss]]
     IN  /\ r_rpcs' = ReleaseRpc(r_rpcs, kind, r_run[t].sessions[session])
         /\ r_run' = [r_run EXCEPT ![t] =
              IF DOMAIN left = {} THEN AfterKind(kind)
              ELSE [r_run[t] EXCEPT !.sessions = left]]
  /\ UNCHANGED <<r_obj, r_token, released_data_handles,
                 released_compile_handles, r_activated, r_queued, r_crashed>>
  /\ UNCHANGED notRel

\* lines 1463-1464: the release RPC fails and XLA_CHECK_OK ends the process
RunnerRpcFail(t, session) ==
  /\ ~r_crashed
  /\ r_run[t].pc = "rpc"
  /\ session \in DOMAIN r_run[t].sessions
  /\ r_rpcs' = ReleaseRpc(r_rpcs, r_run[t].kind, r_run[t].sessions[session])
  /\ r_crashed' = TRUE
  /\ UNCHANGED <<r_obj, r_token, released_data_handles,
                 released_compile_handles, r_activated, r_run, r_queued>>
  /\ UNCHANGED notRel

Targets == {"grpc://a", "grpc://b"}

\* the steps of releaser thread t
RunnerStep(t) ==
  \/ RunnerWake(t)
  \/ RunnerLock(t)
  \/ RunnerSwap(t)
  \/ \E session \in Targets : RunnerRpc(t, session)
  \/ \E session \in Targets : RunnerRpcFail(t, session)

RelNext ==
  \/ \E a \in DataSlots : \E device \in DOMAIN options.global_device_map :
       NewData(a, device)
  \/ \E a \in DataSlots : NewPlaceholder(a)
  \/ \E a \in DataSlots : \E b \in DataSlots : AssignData(a, b)
  \/ \E a \in DataSlots : DestroyData(a)
  \/ \E t \in ReleaserThreads : RunnerStep(t)

\* the compilation handles of the model: numbers that no data handle has
ComputationHandles == {MaxHandles + c : c \in 1..MaxComputations}

KindIdle == h_held = {}

KindInit == h_held = ComputationHandles

\* the handle goes to the pending list of the data handles
ReleaseXrtComputationAsData(lists, compilation_device, handle) ==
  [lists EXCEPT !.data = ReleaseHandle(handle, compilation_device, @)]

\* ReleaseXrtComputation, lines 1514-1518: the handle goes to
\* released_compile_handles_
ReleaseXrtComputation(lists, compilation_device, handle) ==
  [lists EXCEPT !.compile = ReleaseHandle(handle, compilation_device, @)]

\* the last reference to the XrtComputation of handle h, compiled for
\* compilation_device, is dropped: its releaser runs ReleaseXrtComputation,
\* which appends under lock_ and activates the releaser task
DestroyComputation(h, compilation_device) ==
  /\ ~r_crashed
  /\ h \in h_held
  /\ LockFree
  /\ h_held' = h_held \ {h}
  /\ LET lists == ReleaseXrtComputation(
                    [data |-> released_data_handles,
                     compile |-> released_compile_handles],
                    compilation_device, h)
     IN  /\ released_data_handles' = lists.data
         /\ released_compile_handles' = lists.compile
  /\ r_activated' = TRUE
  /\ UNCHANGED <<r_obj, r_token, r_run, r_rpcs, r_queued, r_crashed>>
  /\ UNCHANGED notKind

\* one XrtData after the other (in slot 1) and the computations are made and
\* dropped while the releaser threads run
KindNext ==
  \/ \E device \in DOMAIN options.global_device_map : NewData(1, device)
  \/ DestroyData(1)
  \/ \E h \in ComputationHandles :
       \E device \in DOMAIN options.global_device_map :
         DestroyComputation(h, device)
  \/ \E t \in ReleaserThreads : RunnerStep(t)

\* the XrtData objects that hold the token of handle h
Holders(h) == {a \in DataSlots : r_obj[a].alive /\ r_obj[a].handle_ptr = h}

\* C4 (as stated): once the last reference to a device-resident value is
\* dropped, its server handle eventually appears in exactly one release RPC.
\* Refuted under SpecHandlesFair: a failing release RPC ends the process
\* (line 1463) and the handles the pass drained for another session are never
\* sent.
C4_EventuallyReleasedOnce ==
  \A h \in 1..MaxHandles :
    (h \in DOMAIN r_token /\ r_token[h].use_count = 0)
      ~> (r_rpcs["data"][h] = 1)

\* C4, the part that holds: a handle never appears in more than one release
\* RPC, and never in one while a reference is left.
C4_NeverReleasedTwice ==
  \A h \in DOMAIN r_token :
    /\ r_rpcs["data"][h] <= 1
    /\ r_rpcs["data"][h] = 1 => r_token[h].use_count = 0

\* C4, the part that holds: unless a release RPC has failed and ended the
\* process, a dropped handle eventually appears in exactly one release RPC.
C4_ReleasedUnlessAborted ==
  \A h \in 1..MaxHandles :
    (h \in DOMAIN r_token /\ r_token[h].use_count = 0)
      ~> (r_rpcs["data"][h] = 1 \/ r_crashed)

\* a pass drained two handles of two sessions, the release RPC of the first
\* session failed, the second handle was never sent
C4_AbortWitness ==
  /\ r_crashed
  /\ \E h \in DOMAIN r_token :
       /\ r_token[h].use_count = 0
       /\ r_rpcs["data"][h] = 0

\* the groups a releaser thread still has to send in its current pass
RemainingGroups(t) ==
  IF r_run[t].pc = "rpc" THEN DOMAIN r_run[t].sessions ELSE {}

\* C11 (as stated): a failing release RPC is never fatal and never propagates;
\* the remaining drained handles of the pass are still processed.
\* Refuted under SpecHandles: the status of the release Run goes through
\* XLA_CHECK_OK (line 1463), so a failing RPC ends the process, with the groups
\* of the other sessions of the pass left unsent.
C11_ReleaseFailureNotFatal ==
  ~r_crashed

\* a release RPC failed while the pass had another session's group to send
C11_AbortWithRemainingGroups ==
  /\ r_crashed
  /\ \E t \in ReleaserThreads : Cardinality(RemainingGroups(t)) >= 2

\* the groups of handles the pass of releaser thread t has still to send, one
\* release RPC each
PendingGroups(t) ==
  {r_run[t].sessions[ss] : ss \in RemainingGroups(t)}

\* C20 (as stated): a releaser pass groups the drained handles by owning
\* device and issues one release RPC per device and kind, each carrying all
\* and only the drained handles of that device. Refuted under SpecHandles:
\* the handles are grouped by the session of the device's worker (lines
\* 1438-1443), so the handles of two devices served at one endpoint travel in
\* one RPC, built for the device of the first of them (lines 1456-1459).
C20_OneRpcPerDevice ==
  \A t \in ReleaserThreads : \A group \in PendingGroups(t) :
    \A i \in DOMAIN group : \A j \in DOMAIN group :
      group[i].device = group[j].device

\* C20, what the code does: each group of a pass holds handles of one session
\* only, and no two groups of a pass are of the same session.
C20_OneRpcPerSession ==
  \A t \in ReleaserThreads : \A ss \in RemainingGroups(t) :
    /\ r_run[t].sessions[ss] # <<>>
    /\ \A i \in DOMAIN r_run[t].sessions[ss] :
         GetSessionForDevice(r_run[t].sessions[ss][i].device) = ss

\* a pass is about to send the handles of two devices in one release RPC
C20_TwoDevicesOneRpc ==
  \E t \in ReleaserThreads : \E group \in PendingGroups(t) :
    /\ Len(group) = 2
    /\ group[1].device # group[2].device

\* the tokens agree with the objects: the count of a token is the number of
\* XrtData that hold it, and a handle is on (or has been through) the pending
\* list exactly when no XrtData holds its token, once
TokensMatchHolders ==
  \A h \in DOMAIN r_token :
    /\ r_token[h].use_count = Cardinality(Holders(h))
    /\ r_queued[h] = IF Holders(h) = {} THEN 1 ELSE 0

\* what a.Assign(b) with a # b does: a holds b's token, no token is
\* registered, and the only handle the step can queue is a's previous one,
\* which it does exactly when a was its last holder
AssignShares(a, b) ==
  LET old == r_obj[a].handle_ptr
      new == r_obj[b].handle_ptr
  IN  /\ r_obj'[a].handle_ptr = new
      /\ r_obj'[b] = r_obj[b]
      /\ Len(r_token') = Len(r_token)
      /\ \A h \in DOMAIN r_token :
           /\ r_token'[h].device = r_token[h].device
           /\ r_queued'[h] = r_queued[h] +
                (IF h = old /\ h # new /\ Holders(h) = {a} THEN 1 ELSE 0)
      /\ new # 0 => {a, b} \subseteq {c \in DataSlots : r_obj'[c].alive /\ r_obj'[c].handle_ptr = new}

\* C5: a server handle is never on a pending-release list while an XrtData
\* still shares its release token; after a.Assign(b) both share b's token
\* without re-registering it, a's previous handle is queued at the assignment
\* only if a was its last holder, b's handle is queued only once every holder
\* is gone, and self-assignment changes nothing.
C5_TokenSharing ==
  /\ []TokensMatchHolders
  /\ [][\A a \in DataSlots : \A b \in DataSlots :
          AssignData(a, b) =>
            IF a = b THEN UNCHANGED vars ELSE AssignShares(a, b)]_vars

\* a.Assign(b) has run with a the last holder of its handle: a and b share
\* b's token, a's previous handle is queued, b's is not
C5_Witness ==
  \E a \in DataSlots : \E b \in DataSlots \ {a} :
    /\ r_obj[a].alive /\ r_obj[b].alive
    /\ r_obj[a].handle_ptr = r_obj[b].handle_ptr
    /\ r_obj[a].handle_ptr # 0
    /\ r_token[r_obj[a].handle_ptr].use_count = 2
    /\ r_queued[r_obj[a].handle_ptr] = 0
    /\ \E h \in DOMAIN r_token : r_queued[h] = 1 /\ Holders(h) = {}

\* the data handle is on the pending list of its kind
PendingRelease(h) ==
  \E i \in DOMAIN released_data_handles : released_data_handles[i].handle = h

\* a releaser pass has drained the data handle and has its release RPC to send
DrainedBy(t, h) ==
  /\ r_run[t].pc = "rpc"
  /\ r_run[t].kind = "data"
  /\ \E ss \in DOMAIN r_run[t].sessions :
       \E i \in DOMAIN r_run[t].sessions[ss] :
         r_run[t].sessions[ss][i].handle = h

\* C21: the step that drops the last reference to a handle appends the handle
\* (with its device) to the pending list of its kind and activates the
\* releaser, and performs no release RPC and no releaser step; a release RPC
\* carries a handle only from a releaser pass that drained it from the list,
\* in a step that drops no reference.
C21_DropQueuesWithoutRpc ==
  /\ [][\A h \in DOMAIN r_token :
          (r_token[h].use_count > 0 /\ r_token'[h].use_count = 0) =>
            /\ released_data_handles' =
                 Append(released_data_handles,
                        [device |-> r_token[h].device, handle |-> h])
            /\ r_activated'
            /\ r_rpcs' = r_rpcs
            /\ r_run' = r_run]_vars
  /\ [][\A h \in DOMAIN r_token :
          r_rpcs'["data"][h] # r_rpcs["data"][h] =>
            /\ r_token[h].use_count = 0
            /\ ~PendingRelease(h)
            /\ \E t \in ReleaserThreads : DrainedBy(t, h)
            /\ UNCHANGED <<r_obj, r_token>>]_vars

\* the last reference to a handle was dropped while a releaser pass was
\* sending: the handle is on the pending list, the releaser is activated, and
\* no release RPC has carried the handle
C21_Witness ==
  \E h \in DOMAIN r_token :
    /\ r_token[h].use_count = 0
    /\ PendingRelease(h)
    /\ r_activated
    /\ r_rpcs["data"][h] = 0
    /\ \E t \in ReleaserThreads : r_run[t].pc = "rpc"

\* the releaser threads that hold lock_
LockHolders == {t \in ReleaserThreads : r_run[t].locked}

TimesIn(handles, h) ==
  Cardinality({i \in DOMAIN handles : handles[i].handle = h})

\* how many entries of the groups the passes of the releaser threads have
\* still to send hold the data handle
TimesDrained(h) ==
  LET entries ==
        UNION {UNION {{<<t, ss, i>> : i \in DOMAIN r_run[t].sessions[ss]} :
                        ss \in DOMAIN r_run[t].sessions} :
                 t \in {u \in ReleaserThreads : r_run[u].kind = "data"}}
  IN  Cardinality({e \in entries :
                     r_run[e[1]].sessions[e[2]][e[3]].handle = h})

\* the passes that have yet to swap the pending list of data handles
PassesToCome ==
  {t \in ReleaserThreads : r_run[t].pc = "swap" /\ r_run[t].kind = "data"}

Programs == {"X", "Y"}

CompileThreads == {"c1", "c2"}

\* GetResourceDomain, lines 1723-1726
GetResourceDomain(device) == GetWorkerForDevice(device)[2]

\* CompilationCacheKey(domain, serialized_computation), line 836
CompilationCacheKey(domain, serialized_computation) ==
  [domain |-> domain, serialized_computation |-> serialized_computation]

\* util::Cache, a bounded LRU: the position of key in the cache, 0 if none
CacheFind(cache, key) ==
  IF \E k \in 1..Len(cache) : cache[k].key = key
    THEN CHOOSE k \in 1..Len(cache) : cache[k].key = key
    ELSE 0

\* util::Cache: entry k becomes the most recently used
DoLRU(cache, k) ==
  <<cache[k]>> \o SubSeq(cache, 1, k - 1) \o SubSeq(cache, k + 1, Len(cache))

\* the lookup never finds the key
CacheGetNothing(cache, key) == [cache |-> cache, h |-> 0]

\* compilation_cache_.Get(cache_key), line 838: the cached computation (0 for
\* nullptr); a hit makes the entry the most recently used
CacheGet(cache, key) ==
  LET k == CacheFind(cache, key)
  IN  IF k = 0 THEN [cache |-> cache, h |-> 0]
      ELSE [cache |-> DoLRU(cache, k), h |-> cache[k].h]

\* compilation_cache_.Add(key, computation), line 891: a key the cache holds
\* keeps its computation; a new entry goes first and, above the capacity, the
\* least recently used entry is dropped
CacheAdd(cache, key, h, max_size) ==
  LET k == CacheFind(cache, key)
      grown == <<[key |-> key, h |-> h]>> \o cache
  IN  IF k # 0
        THEN [cache |-> DoLRU(cache, k), added |-> FALSE, evicted |-> <<>>]
      ELSE IF Len(grown) > max_size
        THEN [cache |-> SubSeq(grown, 1, Len(grown) - 1), added |-> TRUE,
              evicted |-> <<grown[Len(grown)]>>]
        ELSE [cache |-> grown, added |-> TRUE, evicted |-> <<>>]

\* The tokens of the compilation handles with the pending list they are
\* released to.
CompState ==
  [token |-> c_token, handles |-> released_compile_handles,
   activated |-> r_activated]

CompSet(st) ==
  /\ c_token' = st.token
  /\ released_compile_handles' = st.handles
  /\ r_activated' = st.activated

\* the handle is queued for release whenever a ComputationPtr goes away
ReleaseAtEveryDrop(st, h) ==
  IF h = 0 THEN st
  ELSE [token |-> DropRef(st.token, h),
        handles |-> ReleaseHandle(h, st.token[h].device, st.handles),
        activated |-> TRUE]

\* one ComputationPtr to the computation of handle h goes away; the last one
\* runs the token's releaser, ReleaseXrtComputation, lines 1514-1518
CompDropRef(st, h) ==
  IF h = 0 THEN st
  ELSE LET token == DropRef(st.token, h)
       IN  IF token[h].use_count = 0
             THEN [token |-> token,
                   handles |-> ReleaseHandle(h, token[h].device, st.handles),
                   activated |-> TRUE]
             ELSE [st EXCEPT !.token = token]

RECURSIVE CompDropAll(_, _)
CompDropAll(st, hs) ==
  IF hs = <<>> THEN st
  ELSE CompDropAll(CompDropRef(st, Head(hs)), Tail(hs))

IdleCall ==
  [pc |-> "idle", device |-> EmptyDevice, instances |-> <<>>, built |-> {},
   results |-> <<>>, index_mapping |-> <<>>, outputs |-> <<>>,
   output_index |-> 0, error |-> <<>>]

CompIdle ==
  /\ c_cache_size = 0
  /\ c_cache = <<>>
  /\ c_token = <<>>
  /\ c_call = <<>>
  /\ c_held = <<>>
  /\ c_rpcs = 0
  /\ c_done = {}
  /\ c_evicted = {}

CompInit ==
  /\ c_cache_size \in 1..MaxCacheSize
  /\ c_cache = <<>>
  /\ c_token = <<>>
  /\ c_call = [c \in CompileThreads |-> IdleCall]
  /\ c_held = <<>>
  /\ c_rpcs = 0
  /\ c_done = {}
  /\ c_evicted = {}

\* the instances of the calls under way, and the results callers hold
InFlight == Len(c_call["c1"].instances) + Len(c_call["c2"].instances)

HeldTotal == SumSeq(c_held)

CallsInFlight == Cardinality({c \in CompileThreads : c_call[c].pc # "idle"})

\* the cache key of instance i of the call of thread c
CacheKeyOf(c, i) ==
  CompilationCacheKey(GetResourceDomain(c_call[c].device),
                      c_call[c].instances[i])

\* a thread calls Compile(device, devices, instances), lines 818-829
CompileCall(c, device, instances) ==
  /\ c_call[c].pc = "idle"
  /\ Len(c_token) + InFlight + Len(instances) <= MaxCompileHandles
  /\ HeldTotal + InFlight + Len(instances) <= MaxHeld
  /\ c_rpcs + CallsInFlight + 1 <= MaxCompileRpcs
  /\ c_call' = [c_call EXCEPT ![c] =
       [pc |-> "build", device |-> device, instances |-> instances,
        built |-> {}, results |-> [i \in 1..Len(instances) |-> 0],
        index_mapping |-> <<>>, outputs |-> <<>>, output_index |-> 0,
        error |-> <<>>]]
  /\ UNCHANGED <<c_cache_size, c_cache, c_token, c_held, c_rpcs, c_done,
                 c_evicted, released_compile_handles, r_activated>>
  /\ UNCHANGED notComp

\* every instance enters the compile RPC, found in the cache or not
AppendWorkAlways(index_mapping, i, h) == Append(index_mapping, i)

\* the builder closure, lines 839-862: an instance the cache does not hold
\* (computation_ptr == nullptr, h = 0) enters the work of the session, under
\* the lock of the call; one the cache holds does not
AppendWork(index_mapping, i, h) ==
  IF h = 0 THEN Append(index_mapping, i) ELSE index_mapping

\* the builder closure of instance i, lines 831-862; the last builder ends
\* mwait.Wait() of line 865
Builder(c, i) ==
  /\ c_call[c].pc = "build"
  /\ i \in 1..Len(c_call[c].instances)
  /\ i \notin c_call[c].built
  /\ LET got == CacheGet(c_cache, CacheKeyOf(c, i))
         built == c_call[c].built \cup {i}
         index_mapping == AppendWork(c_call[c].index_mapping, i, got.h)
         pc == IF built # 1..Len(c_call[c].instances) THEN "build"
               ELSE IF index_mapping = <<>> THEN "return" ELSE "run"
     IN  /\ c_cache' = got.cache
         /\ c_token' = AddRef(c_token, got.h)
         /\ c_call' = [c_call EXCEPT ![c].built = built,
                                     ![c].results[i] = got.h,
                                     ![c].index_mapping = index_mapping,
                                     ![c].pc = pc]
  /\ UNCHANGED <<c_cache_size, c_held, c_rpcs, c_done, c_evicted,
                 released_compile_handles, r_activated>>
  /\ UNCHANGED notComp

\* session_runner, lines 872-877: the compile RPC succeeds and outputs holds
\* one new compilation handle per entry of index_mapping
SessionRunnerRun(c) ==
  /\ c_call[c].pc = "run"
  /\ LET n == Len(c_call[c].index_mapping)
         first == Len(c_token)
     IN  /\ c_token' = c_token \o
              [k \in 1..n |->
                 [key |-> CacheKeyOf(c, c_call[c].index_mapping[k]),
                  device |-> c_call[c].device, use_count |-> 0,
                  rpc |-> c_rpcs + 1]]
         /\ c_held' = c_held \o [k \in 1..n |-> 0]
         /\ c_call' = [c_call EXCEPT ![c].outputs = [k \in 1..n |-> first + k],
                                     ![c].output_index = 1,
                                     ![c].pc = "wrap"]
  /\ c_rpcs' = c_rpcs + 1
  /\ UNCHANGED <<c_cache_size, c_cache, c_done, c_evicted,
                 released_compile_handles, r_activated>>
  /\ UNCHANGED notComp

\* the report names every instance of the call
ReportAllInstances(instances, index_mapping) ==
  [k \in DOMAIN instances |-> [instance |-> k, computation |-> instances[k]]]

\* CheckCompileStatus on a failed status, lines 900-912: the computations (with
\* their output shapes) handed to ReportComputationError, one per entry li of
\* session_work.index_mapping, in that order
CheckCompileStatus(instances, index_mapping) ==
  [k \in DOMAIN index_mapping |->
     [instance |-> index_mapping[k],
      computation |-> instances[index_mapping[k]]]]

\* session_runner, lines 872-877: the compile RPC fails and CheckCompileStatus
\* reports the error, so the runner ends before line 878
SessionRunnerFail(c) ==
  /\ c_call[c].pc = "run"
  /\ c_rpcs' = c_rpcs + 1
  /\ c_call' = [c_call EXCEPT
       ![c].pc = "failed",
       ![c].error = CheckCompileStatus(c_call[c].instances,
                                       c_call[c].index_mapping)]
  /\ UNCHANGED <<c_cache_size, c_cache, c_token, c_held, c_done, c_evicted,
                 released_compile_handles, r_activated>>
  /\ UNCHANGED notComp

\* line 896: mwait.Wait() hands the error of the runner to the caller; Compile
\* ends without returning and its results vector, with the cached computations
\* the builders put there, goes away
CompileThrow(c) ==
  /\ c_call[c].pc = "failed"
  /\ CompSet(CompDropAll(CompState, c_call[c].results))
  /\ c_call' = [c_call EXCEPT ![c] = IdleCall]
  /\ UNCHANGED <<c_cache_size, c_cache, c_held, c_rpcs, c_done, c_evicted>>
  /\ UNCHANGED notComp

\* output number output_index goes to instance number output_index
WrapIndexDirect(index_mapping, output_index) == output_index

\* session_runner, lines 880-881: the instance li that outputs[output_index]
\* belongs to (output_index is 0-based in the code, 1-based here)
WrapIndex(index_mapping, output_index) == index_mapping[output_index]

\* session_runner, lines 881-893: the next entry li of index_mapping gets its
\* XrtComputation, made of outputs[output_index], and is added to the cache
SessionRunnerWrap(c) ==
  /\ c_call[c].pc = "wrap"
  /\ LET output_index == c_call[c].output_index
         li == WrapIndex(c_call[c].index_mapping, output_index)
         h == c_call[c].outputs[output_index]
         add == CacheAdd(c_cache, CacheKeyOf(c, li), h, c_cache_size)
         made == [c_token EXCEPT ![h].use_count = 1]
         kept == IF add.added THEN AddRef(made, h) ELSE made
         st == [token |-> kept, handles |-> released_compile_handles,
                activated |-> r_activated]
         last == output_index = Len(c_call[c].index_mapping)
     IN  /\ c_cache' = add.cache
         /\ CompSet(CompDropAll(st, [k \in 1..Len(add.evicted) |->
                                       add.evicted[k].h]))
         /\ c_evicted' = c_evicted \cup
                           {add.evicted[k].key : k \in 1..Len(add.evicted)}
         /\ c_call' = [c_call EXCEPT ![c].results[li] = h,
                                     ![c].output_index = output_index + 1,
                                     ![c].pc = IF last THEN "return" ELSE "wrap"]
  /\ UNCHANGED <<c_cache_size, c_held, c_rpcs, c_done>>
  /\ UNCHANGED notComp

\* line 897: Compile returns results to its caller
CompileReturn(c) ==
  /\ c_call[c].pc = "return"
  /\ c_held' = [h \in DOMAIN c_held |->
                  c_held[h] + Cardinality({i \in DOMAIN c_call[c].results :
                                             c_call[c].results[i] = h})]
  /\ c_done' = c_done \cup
                 {CacheKeyOf(c, i) : i \in DOMAIN c_call[c].instances}
  /\ c_call' = [c_call EXCEPT ![c] = IdleCall]
  /\ UNCHANGED <<c_cache_size, c_cache, c_token, c_rpcs, c_evicted,
                 released_compile_handles, r_activated>>
  /\ UNCHANGED notComp

\* a caller drops one ComputationPtr it got from Compile
CompileDrop(h) ==
  /\ h \in DOMAIN c_held
  /\ c_held[h] > 0
  /\ c_held' = [c_held EXCEPT ![h] = @ - 1]
  /\ CompSet(CompDropRef(CompState, h))
  /\ UNCHANGED <<c_cache_size, c_cache, c_call, c_rpcs, c_done, c_evicted>>
  /\ UNCHANGED notComp

CompNext ==
  \/ \E c \in CompileThreads : \E device \in DOMAIN options.global_device_map :
       \E instances \in SeqsUpTo(Programs, MaxInstances) \ {<<>>} :
         CompileCall(c, device, instances)
  \/ \E c \in CompileThreads : \E i \in 1..MaxInstances : Builder(c, i)
  \/ \E c \in CompileThreads : SessionRunnerRun(c)
  \/ \E c \in CompileThreads : SessionRunnerFail(c)
  \/ \E c \in CompileThreads : CompileThrow(c)
  \/ \E c \in CompileThreads : SessionRunnerWrap(c)
  \/ \E c \in CompileThreads : CompileReturn(c)
  \/ \E h \in 1..MaxCompileHandles : CompileDrop(h)

\* the compilation handles on the pending-release list
PendingCompileHandles ==
  {released_compile_handles[k].handle : k \in DOMAIN released_compile_handles}

\* C6 (as stated): compiling the same program for the same resource domain
\* twice, in one call, in sequential calls or in concurrent calls, issues
\* exactly one compile RPC.  Refuted: of the compilation handles of one key
\* that was never evicted, two can come from different compile RPCs, those of
\* two concurrent calls that both found the cache empty.
C6_OneCompileRpc ==
  \A h1 \in DOMAIN c_token : \A h2 \in DOMAIN c_token :
    (c_token[h1].key = c_token[h2].key /\ c_token[h1].key \notin c_evicted)
      => c_token[h1].rpc = c_token[h2].rpc

\* instance i of the call of thread c is served from the cache: the builder
\* step gives it a computation, adds nothing to the compile RPC of the call,
\* and the handle of the computation is not on the pending-release list
ServedFromCache(c, i) ==
  /\ c_call'[c].results[i] # 0
  /\ c_call'[c].index_mapping = c_call[c].index_mapping
  /\ c_call'[c].results[i] \notin PendingCompileHandles
  /\ c_rpcs' = c_rpcs

\* a Compile call with this key has returned and its callers have dropped the
\* programs they got for it
CompiledAndDropped(key) ==
  /\ key \in c_done
  /\ \A h \in DOMAIN c_token : c_token[h].key = key => c_held[h] = 0

\* C7 (as stated): after Compile of X for D has completed and the caller has
\* dropped the program, a later Compile of X for D issues no compile RPC and
\* returns a program whose handle has not been queued for release.  Refuted:
\* the entry of X may have been evicted from the bounded cache.
C7_LaterCompileHits ==
  [][\A c \in CompileThreads : \A i \in 1..MaxInstances :
       (Builder(c, i) /\ CompiledAndDropped(CacheKeyOf(c, i)))
         => ServedFromCache(c, i)]_vars

\* the cache keeps its computations live: the handle of a cached computation
\* has a reference and is not on the pending-release list
CacheKeepsLive ==
  \A k \in DOMAIN c_cache :
    /\ c_token[c_cache[k].h].use_count >= 1
    /\ c_cache[k].h \notin PendingCompileHandles

\* C7 (amended): the same, for an X whose cache entry has not been evicted.
C7_LaterCompileHitsUnlessEvicted ==
  /\ []CacheKeepsLive
  /\ [][\A c \in CompileThreads : \A i \in 1..MaxInstances :
          (/\ Builder(c, i)
           /\ CompiledAndDropped(CacheKeyOf(c, i))
           /\ CacheKeyOf(c, i) \notin c_evicted)
            => ServedFromCache(c, i)]_vars

\* X was compiled with one RPC, returned and dropped; a second call for X has
\* all its results, got them from the cache without an RPC, and the handle is
\* not queued for release
C7_Witness ==
  \E c \in CompileThreads :
    /\ c_call[c].pc = "return"
    /\ c_call[c].index_mapping = <<>>
    /\ c_rpcs = 1
    /\ LET h == c_call[c].results[1]
       IN  /\ c_token[h].key \in c_done
           /\ c_held[h] = 0
           /\ c_token[h].use_count = 2
           /\ h \notin PendingCompileHandles

\* the instances of the call of thread c that the builders did not find in
\* the cache: they have no computation yet
CacheMisses(c) ==
  {i \in DOMAIN c_call[c].instances : c_call[c].results[i] = 0}

\* the error of the call of thread c names exactly the instances in S, each
\* once, with its computation
NamesExactly(c, S) ==
  LET error == c_call[c].error
  IN  /\ Len(error) = Cardinality(S)
      /\ \A i \in S : \E k \in DOMAIN error :
           /\ error[k].instance = i
           /\ error[k].computation = c_call[c].instances[i]

\* C13: when a compile RPC fails, the compilation error names exactly the
\* computations of the instances of that RPC, those the cache did not hold
\* (none dropped, no cache hit included), and no program of the failed batch
\* is put in the compilation cache or returned: the failing step and the end
\* of the call make no computation, leave the cache as it is and hand nothing
\* to the caller.
C13_CompileErrorNamesBatch ==
  /\ [](\A c \in CompileThreads :
          c_call[c].pc = "failed" =>
            /\ CacheMisses(c) # {}
            /\ NamesExactly(c, CacheMisses(c)))
  /\ [][\A c \in CompileThreads :
          (SessionRunnerFail(c) \/ CompileThrow(c)) =>
            /\ c_cache' = c_cache
            /\ Len(c_token') = Len(c_token)
            /\ c_held' = c_held
            /\ c_done' = c_done
            /\ c_call'[c].pc \in {"failed", "idle"}]_vars

\* a call of two instances, one found in the cache and one not, whose compile
\* RPC failed: the error names the one that was not found
C13_Witness ==
  \E c \in CompileThreads :
    /\ c_call[c].pc = "failed"
    /\ Len(c_call[c].instances) = 2
    /\ Cardinality(CacheMisses(c)) = 1
    /\ Len(c_call[c].error) = 1

\* index_mapping of the call of thread c lists every instance of S once
ListsExactly(c, S) ==
  /\ Len(c_call[c].index_mapping) = Cardinality(S)
  /\ \A i \in S : \E k \in DOMAIN c_call[c].index_mapping :
       c_call[c].index_mapping[k] = i

\* the call of thread c has had its compile RPC answered
Answered(c) == c_call[c].pc \in {"wrap", "return"} /\ c_call[c].outputs # <<>>

C25_ResultsMatchInstances ==
  /\ [](\A c \in CompileThreads :
          c_call[c].pc = "return" =>
            /\ \A i \in DOMAIN c_call[c].instances :
                 /\ c_call[c].results[i] # 0
                 /\ c_token[c_call[c].results[i]].key = CacheKeyOf(c, i)
            /\ \A k \in DOMAIN c_call[c].index_mapping :
                 c_call[c].results[c_call[c].index_mapping[k]] =
                   c_call[c].outputs[k])
  /\ [][\A c \in CompileThreads : \A i \in 1..MaxInstances :
          (Builder(c, i) /\ CacheFind(c_cache, CacheKeyOf(c, i)) # 0) =>
            c_call'[c].results[i] =
              c_cache[CacheFind(c_cache, CacheKeyOf(c, i))].h]_vars

\* a call of two different programs whose builders appended their work in
\* the reverse order has both results
C25_Witness ==
  \E c \in CompileThreads :
    /\ c_call[c].pc = "return"
    /\ c_call[c].index_mapping = <<2, 1>>
    /\ c_call[c].instances[1] # c_call[c].instances[2]

\* the ComputationPtr that point to the computation of handle h: the entries
\* of the cache, the results of the calls under way, the results callers hold
Refs(h) ==
  Cardinality({k \in DOMAIN c_cache : c_cache[k].h = h})
    + Cardinality({ci \in CompileThreads \X (1..MaxInstances) :
                     /\ ci[2] \in DOMAIN c_call[ci[1]].results
                     /\ c_call[ci[1]].results[ci[2]] = h})
    + c_held[h]

\* the entries the step removes from the cache
EvictedNow ==
  {c_cache[k] : k \in DOMAIN c_cache} \ {c_cache'[k] : k \in DOMAIN c_cache'}

\* C26: the handle of a compiled program is queued for release only when no
\* ComputationPtr to the program is left, and once: the count of its release
\* token is the number of cache entries and of results (of calls under way
\* or held by callers) that point to it, and a handle on the pending list
\* has none.  A step that evicts an entry from the cache queues the entry's
\* handle exactly when the cache held the last reference, and never while a
\* caller holds the evicted program.
C26_EvictionDropsOnlyCacheRef ==
  /\ [](\A h \in DOMAIN c_token :
          /\ c_token[h].use_count = Refs(h)
          /\ TimesIn(released_compile_handles, h) <= 1
          /\ h \in PendingCompileHandles => Refs(h) = 0)
  /\ [][\A e \in EvictedNow :
          /\ c_token'[e.h].use_count = c_token[e.h].use_count - 1
          /\ c_held[e.h] > 0 => e.h \notin PendingCompileHandles'
          /\ (e.h \in PendingCompileHandles') <=>
               (c_token[e.h].use_count = 1)]_vars

\* the program of an evicted key is held by a caller: it is not in the
\* cache, its token has the caller's reference, and its handle is not queued
C26_Witness ==
  \E h \in DOMAIN c_token :
    /\ c_token[h].key \in c_evicted
    /\ \A k \in DOMAIN c_cache : c_cache[k].h # h
    /\ c_held[h] > 0
    /\ c_token[h].use_count = c_held[h]
    /\ h \notin PendingCompileHandles

(***************************************************************************)
(* ExecuteChained (lines 1040-1199).  An op either holds device_data or a  *)
(* computation with its inputs; an input is the op_index it names (a       *)
(* size_t, so never negative).  An op that holds device_data has no        *)
(* inputs.  An op has the shape of its data or of the result of its        *)
(* program, and outputs [result_index, output_index].  The sequences of    *)
(* the model are of two families: ops with inputs and no outputs, and ops  *)
(* with outputs and no inputs.                                             *)
(***************************************************************************)
\* xla::Shape, as far as the chained executions read it: an array shape, or a
\* tuple of array shapes; a default-constructed Shape is NullShape
ArrayShape(name) == [tuple |-> FALSE, elements |-> <<name>>]

TupleShape(names) == [tuple |-> TRUE, elements |-> names]

NullShape == [tuple |-> FALSE, elements |-> <<>>]

\* ShapeUtil::GetTupleElementShape(shape, index), index 0-based
GetTupleElementShape(shape, index) == ArrayShape(shape.elements[index + 1])

\* absl::optional<size_t>: <<>> is nullopt, <<k>> holds k
ValueOr(optional, default) ==
  IF optional = <<>> THEN default ELSE optional[1]

\* A DataPtr of the results, by the logical value it stands for: the whole
\* result of op number op, or its tuple element number element[1], with the
\* shape the XrtData was made with.  NullData is a DataPtr that is nullptr.
WholeOf(op, shape) == [op |-> <<op>>, element |-> <<>>, shape |-> shape]

ElementOf(op, shape, index) ==
  [op |-> <<op>>, element |-> <<index>>,
   shape |-> GetTupleElementShape(shape, index)]

NullData == [op |-> <<>>, element |-> <<>>, shape |-> NullShape]

\* the shapes of the programs and data of the model
ChainShapes == {ArrayShape("f32"), TupleShape(<<"f32", "s32">>)}

DataOp ==
  [computation |-> FALSE, inputs |-> <<>>, shape |-> ArrayShape("f32"),
   outputs |-> <<>>]

\* the inputs an op at index i may have in the model: at most MaxChainInputs
\* op_index values, none more than one past i, in non-decreasing order, or
\* twice the same earlier op
InputsAt(i) ==
  {s \in SeqsUpTo(0..(i + 1), MaxChainInputs) :
     \A k \in 1..(Len(s) - 1) : s[k] <= s[k + 1]}
  \cup {<<j, j>> : j \in 0..(i - 1)}

\* the ops with inputs and without outputs that may stand at index i
InputOpsAt(i) ==
  {DataOp} \cup
  {[computation |-> TRUE, inputs |-> inputs, shape |-> ArrayShape("f32"),
    outputs |-> <<>>] : inputs \in InputsAt(i)}

\* the sequences of n such ops: op i (0-based, at position i + 1) is one of
\* InputOpsAt(i), that is an op of InputOpsAt(n - 1) with no input past i + 1
InputChains(n) ==
  {ops \in [1..n -> InputOpsAt(n - 1)] :
     \A p \in 1..n : \A k \in DOMAIN ops[p].inputs : ops[p].inputs[k] <= p}

\* the outputs an op of this shape may declare in the model: none, or one
\* output for a result slot, of the whole shape or of one of its elements
OutputsOf(shape) ==
  LET indices == {<<>>} \cup
                 (IF shape.tuple
                    THEN {<<k>> : k \in 0..(Len(shape.elements) - 1)}
                    ELSE {})
  IN  {<<>>} \cup
      {<<[result_index |-> r, output_index |-> k]>> :
         r \in 0..MaxResultIndex, k \in indices}

\* the ops without inputs, of data or of a computation, with their outputs
OutputOps ==
  UNION {[computation : BOOLEAN, inputs : {<<>>}, shape : {shape},
          outputs : OutputsOf(shape)] : shape \in ChainShapes}

\* the ops sequences of the model
ChainedOps ==
  (UNION {InputChains(n) : n \in 1..MaxChainOps})
    \cup (SeqsUpTo(OutputOps, MaxOutputOps) \ {<<>>})

ChainIdle ==
  /\ x_split_mode = FALSE
  /\ x_ops = <<>>
  /\ x_pc = "idle"
  /\ x_i = 0
  /\ x_uses = <<>>
  /\ x_ops_outputs = <<>>
  /\ x_plan = <<>>
  /\ x_result_shapes = <<>>
  /\ x_results = <<>>
  /\ x_resets = 0
  /\ x_rpcs = <<>>

ChainInit ==
  /\ x_split_mode \in BOOLEAN
  /\ x_ops \in ChainedOps
  /\ x_pc = "call"
  /\ x_i = 0
  /\ x_uses = <<>>
  /\ x_ops_outputs = <<>>
  /\ x_plan = <<>>
  /\ x_result_shapes = <<>>
  /\ x_results = <<>>
  /\ x_resets = 0
  /\ x_rpcs = <<>>

\* the op_index of the inputs of all ops, in the order of lines 1134-1138
RECURSIVE AllInputs(_)
AllInputs(ops) ==
  IF ops = <<>> THEN <<>> ELSE Head(ops).inputs \o AllInputs(Tail(ops))

\* the number of entries of inputs that name op_index
CountOf(inputs, op_index) ==
  Cardinality({k \in DOMAIN inputs : inputs[k] = op_index})

\* std::vector::resize(n) of a vector shorter than n
Resize(vector, n, null) ==
  vector \o [k \in 1..(n - Len(vector)) |-> null]

\* ExecuteChained with XRT_SPLIT_CHAINED_EXEC unset, lines 1040-1045, and
\* ExecuteChainedXrt up to its loop, lines 1047-1062
ExecuteChainedXrt ==
  /\ x_pc = "call"
  /\ ~x_split_mode
  /\ x_pc' = "plan"
  /\ x_i' = 0
  /\ UNCHANGED <<x_split_mode, x_ops, x_uses, x_ops_outputs, x_plan,
                 x_result_shapes, x_results, x_resets, x_rpcs>>
  /\ UNCHANGED notChain

\* the test of line 1076 for one input of op i
InputIsEarlier(op_index, i) == op_index < i

\* every output takes the whole shape of its op
WholeShapeAlways(op_shape, output) == op_shape

\* ExecuteChainedXrt, lines 1096-1102: the shape of the result an output
\* declares
XrtResultShape(op_shape, output) ==
  IF output.output_index # <<>>
    THEN GetTupleElementShape(op_shape, output.output_index[1])
    ELSE op_shape

\* ExecuteChainedXrt, lines 1089-1103: result_shapes after the outputs of one
\* op
RECURSIVE XrtResultShapes(_, _, _)
XrtResultShapes(result_shapes, op_shape, outputs) ==
  IF outputs = <<>> THEN result_shapes
  ELSE LET output == Head(outputs)
           grown == IF output.result_index >= Len(result_shapes)
                      THEN Resize(result_shapes, output.result_index + 1,
                                  NullShape)
                      ELSE result_shapes
       IN  XrtResultShapes(
             [grown EXCEPT ![output.result_index + 1] =
                XrtResultShape(op_shape, output)],
             op_shape, Tail(outputs))

\* ExecuteChainedXrt, lines 1066-1103: the XRTChainedExecuteOp of op number i;
\* the output_index of an output of the plan is 0 for the whole result and
\* one more than the tuple index otherwise (lines 1097-1098)
PlanOp(i, op) ==
  [op |-> i, computation |-> op.computation, inputs |-> op.inputs,
   outputs |-> [k \in DOMAIN op.outputs |->
                  [result_index |-> op.outputs[k].result_index,
                   output_index |->
                     IF op.outputs[k].output_index = <<>> THEN 0
                     ELSE op.outputs[k].output_index[1] + 1]]]

\* ExecuteChainedXrt, lines 1063-1103: op i is added to the plan, unless one
\* of its inputs fails XLA_CHECK_LT(input.op_index, i)
XrtPlanOp ==
  /\ x_pc = "plan"
  /\ x_i < Len(x_ops)
  /\ LET op == x_ops[x_i + 1]
         ok == \A k \in DOMAIN op.inputs : InputIsEarlier(op.inputs[k], x_i)
     IN  IF op.computation /\ ~ok
           THEN /\ x_pc' = "check_failed"
                /\ UNCHANGED <<x_i, x_plan, x_result_shapes>>
           ELSE /\ x_plan' = Append(x_plan, PlanOp(x_i, op))
                /\ x_result_shapes' =
                     XrtResultShapes(x_result_shapes, op.shape, op.outputs)
                /\ x_i' = x_i + 1
                /\ x_pc' = IF x_i + 1 = Len(x_ops) THEN "run" ELSE "plan"
  /\ UNCHANGED <<x_split_mode, x_ops, x_uses, x_ops_outputs, x_results,
                 x_resets, x_rpcs>>
  /\ UNCHANGED notChain

\* The XRT service running a chained plan: the handles it returns, one per
\* result slot up to the largest result_index of the plan, each standing for
\* what the last output of that slot selects (the whole result for
\* output_index 0, the tuple element output_index - 1 otherwise).
RECURSIVE ChainedHandles(_, _)
ChainedHandles(handles, plan) ==
  IF plan = <<>> THEN handles
  ELSE LET op == Head(plan)
           null == [op |-> <<>>, element |-> <<>>]
           RECURSIVE Put(_, _)
           Put(hs, outputs) ==
             IF outputs = <<>> THEN hs
             ELSE LET output == Head(outputs)
                      grown == IF output.result_index >= Len(hs)
                                 THEN Resize(hs, output.result_index + 1, null)
                                 ELSE hs
                  IN  Put([grown EXCEPT ![output.result_index + 1] =
                             [op |-> <<op.op>>,
                              element |->
                                IF output.output_index = 0 THEN <<>>
                                ELSE <<output.output_index - 1>>]],
                          Tail(outputs))
       IN  ChainedHandles(Put(handles, op.outputs), Tail(plan))

\* ExecuteChainedXrt, lines 1116-1123: one XrtData per returned handle, with
\* result_shapes.at(i)
XrtResults(handles_vec, result_shapes) ==
  [k \in DOMAIN handles_vec |->
     [op |-> handles_vec[k].op, element |-> handles_vec[k].element,
      shape |-> result_shapes[k]]]

\* ExecuteChainedXrt, lines 1105-1125: the plan is run in one RPC
XrtRun ==
  /\ x_pc = "run"
  /\ x_rpcs' = Append(x_rpcs, -1)
  /\ x_results' = XrtResults(ChainedHandles(<<>>, x_plan), x_result_shapes)
  /\ x_pc' = "returned"
  /\ UNCHANGED <<x_split_mode, x_ops, x_i, x_uses, x_ops_outputs, x_plan,
                 x_result_shapes, x_resets>>
  /\ UNCHANGED notChain

\* lines 1110-1113: the RPC fails and CheckComputationStatus reports it
XrtRunFail ==
  /\ x_pc = "run"
  /\ x_rpcs' = Append(x_rpcs, -1)
  /\ x_pc' = "run_failed"
  /\ UNCHANGED <<x_split_mode, x_ops, x_i, x_uses, x_ops_outputs, x_plan,
                 x_result_shapes, x_results, x_resets>>
  /\ UNCHANGED notChain

\* an input names an op the sequence does not have: uses[input.op_index] of
\* line 1136 is outside the vector
UsesOutOfRange == \E k \in DOMAIN AllInputs(x_ops) :
                    AllInputs(x_ops)[k] >= Len(x_ops)

\* ExecuteChained with XRT_SPLIT_CHAINED_EXEC set and ExecuteChainedSplit up
\* to its loop, lines 1128-1146.  A write outside uses leaves the vector as
\* it is here (the other outcome is ExecuteChainedSplitCorrupt).
ExecuteChainedSplit ==
  /\ x_pc = "call"
  /\ x_split_mode
  /\ x_uses' = [j \in 1..Len(x_ops) |-> CountOf(AllInputs(x_ops), j - 1)]
  /\ x_ops_outputs' = [j \in 1..Len(x_ops) |-> <<>>]
  /\ x_pc' = "loop"
  /\ x_i' = 0
  /\ UNCHANGED <<x_split_mode, x_ops, x_plan, x_result_shapes, x_results,
                 x_resets, x_rpcs>>
  /\ UNCHANGED notChain

\* line 1136 with an index outside uses: the write ends the process
ExecuteChainedSplitCorrupt ==
  /\ x_pc = "call"
  /\ x_split_mode
  /\ UsesOutOfRange
  /\ x_pc' = "corrupted"
  /\ UNCHANGED <<x_split_mode, x_ops, x_i, x_uses, x_ops_outputs, x_plan,
                 x_result_shapes, x_results, x_resets, x_rpcs>>
  /\ UNCHANGED notChain

\* lines 1155-1159: the two checks on every input of op i (an input of the
\* model has no output_index, so the second reads output_index.value_or(0))
SplitInputsOk(i) ==
  \A k \in DOMAIN x_ops[i + 1].inputs :
    LET op_index == x_ops[i + 1].inputs[k]
    IN  /\ InputIsEarlier(op_index, i)
        /\ 0 < Len(x_ops_outputs[op_index + 1])

\* GetComputationResults, lines 1702-1721, for the result of op number i run
\* with explode_tuple: a tuple result comes as one handle per element, each
\* made with the shape of its element; any other result as one handle
ExplodedResults(i, result_shape) ==
  IF result_shape.tuple
    THEN [k \in DOMAIN result_shape.elements |->
            ElementOf(i, result_shape, k - 1)]
    ELSE <<WholeOf(i, result_shape)>>

\* ExecuteChainedSplit, lines 1149-1150 and 1173-1175: ops_outputs[i]
SplitOutputsOf(i) ==
  IF x_ops[i + 1].computation
    THEN ExplodedResults(i, x_ops[i + 1].shape)
    ELSE <<WholeOf(i, x_ops[i + 1].shape)>>

\* line 1182: the check on every output of op i
SplitOutputsOk(i) ==
  \A k \in DOMAIN x_ops[i + 1].outputs :
    ValueOr(x_ops[i + 1].outputs[k].output_index, 0) < Len(SplitOutputsOf(i))

\* ExecuteChainedSplit, lines 1178-1185: results after the outputs of op i
RECURSIVE SplitResults(_, _, _)
SplitResults(results, op_outputs, outputs) ==
  IF outputs = <<>> THEN results
  ELSE LET output == Head(outputs)
           grown == IF output.result_index >= Len(results)
                      THEN Resize(results, output.result_index + 1, NullData)
                      ELSE results
       IN  SplitResults(
             [grown EXCEPT ![output.result_index + 1] =
                op_outputs[ValueOr(output.output_index, 0) + 1]],
             op_outputs, Tail(outputs))

\* the outputs of a producer are cleared by its first consumer
AfterUsesClearsAtFirstUse(i) ==
  [uses |-> [j \in 1..Len(x_ops) |->
               x_uses[j] - CountOf(x_ops[i + 1].inputs, j - 1)],
   ops_outputs |-> [j \in 1..Len(x_ops) |->
               IF CountOf(x_ops[i + 1].inputs, j - 1) > 0 THEN <<>>
               ELSE IF j = i + 1 THEN SplitOutputsOf(i)
               ELSE x_ops_outputs[j]]]

\* the outputs of a producer are kept after its last consumer
AfterUsesKeepsAll(i) ==
  [uses |-> [j \in 1..Len(x_ops) |->
               x_uses[j] - CountOf(x_ops[i + 1].inputs, j - 1)],
   ops_outputs |-> [j \in 1..Len(x_ops) |->
               IF j = i + 1 THEN SplitOutputsOf(i) ELSE x_ops_outputs[j]]]

\* lines 1188-1194: the uses of the producers of op i go down, a producer
\* without uses left has its outputs cleared
AfterUses(i) ==
  [uses |-> [j \in 1..Len(x_ops) |->
               x_uses[j] - CountOf(x_ops[i + 1].inputs, j - 1)],
   ops_outputs |-> [j \in 1..Len(x_ops) |->
               IF /\ CountOf(x_ops[i + 1].inputs, j - 1) > 0
                  /\ x_uses[j] = CountOf(x_ops[i + 1].inputs, j - 1)
                 THEN <<>>
               ELSE IF j = i + 1 THEN SplitOutputsOf(i)
               ELSE x_ops_outputs[j]]]

\* one turn of the loop of ExecuteChainedSplit, lines 1147-1197, that gets to
\* its end: op i holds device_data, or its inputs pass the checks and its
\* computation is run in an RPC of its own; its outputs pass the check and go
\* to their result slots; the session is reset
SplitOp ==
  /\ x_pc = "loop"
  /\ x_i < Len(x_ops)
  /\ x_ops[x_i + 1].computation => SplitInputsOk(x_i)
  /\ SplitOutputsOk(x_i)
  /\ x_rpcs' = IF x_ops[x_i + 1].computation THEN Append(x_rpcs, x_i)
               ELSE x_rpcs
  /\ x_results' = SplitResults(x_results, SplitOutputsOf(x_i),
                               x_ops[x_i + 1].outputs)
  /\ x_uses' = AfterUses(x_i).uses
  /\ x_ops_outputs' = AfterUses(x_i).ops_outputs
  /\ x_resets' = x_resets + 1
  /\ x_i' = x_i + 1
  /\ x_pc' = IF x_i + 1 = Len(x_ops) THEN "returned" ELSE "loop"
  /\ UNCHANGED <<x_split_mode, x_ops, x_plan, x_result_shapes>>
  /\ UNCHANGED notChain

\* lines 1155-1157: an input of op i fails one of the XLA_CHECK_LT
SplitOpCheckFails ==
  /\ x_pc = "loop"
  /\ x_i < Len(x_ops)
  /\ x_ops[x_i + 1].computation
  /\ ~SplitInputsOk(x_i)
  /\ x_pc' = "check_failed"
  /\ UNCHANGED <<x_split_mode, x_ops, x_i, x_uses, x_ops_outputs, x_plan,
                 x_result_shapes, x_results, x_resets, x_rpcs>>
  /\ UNCHANGED notChain

\* line 1182: an output of op i fails XLA_CHECK_LT, after the computation of
\* the op was run and with the results of the outputs before it in place
SplitOpOutputCheckFails ==
  /\ x_pc = "loop"
  /\ x_i < Len(x_ops)
  /\ x_ops[x_i + 1].computation => SplitInputsOk(x_i)
  /\ ~SplitOutputsOk(x_i)
  /\ LET outputs == x_ops[x_i + 1].outputs
         bad == CHOOSE k \in DOMAIN outputs :
                  /\ ValueOr(outputs[k].output_index, 0)
                       >= Len(SplitOutputsOf(x_i))
                  /\ \A j \in 1..(k - 1) :
                       ValueOr(outputs[j].output_index, 0)
                         < Len(SplitOutputsOf(x_i))
         prior == SplitResults(x_results, SplitOutputsOf(x_i),
                               SubSeq(outputs, 1, bad - 1))
     IN  x_results' = IF outputs[bad].result_index >= Len(prior)
                        THEN Resize(prior, outputs[bad].result_index + 1,
                                    NullData)
                        ELSE prior
  /\ x_rpcs' = IF x_ops[x_i + 1].computation THEN Append(x_rpcs, x_i)
               ELSE x_rpcs
  /\ x_ops_outputs' = [x_ops_outputs EXCEPT ![x_i + 1] = SplitOutputsOf(x_i)]
  /\ x_pc' = "check_failed"
  /\ UNCHANGED <<x_split_mode, x_ops, x_i, x_uses, x_plan, x_result_shapes,
                 x_resets>>
  /\ UNCHANGED notChain

\* lines 1168-1172: the RPC of op i fails and CheckComputationStatus reports it
SplitOpRunFail ==
  /\ x_pc = "loop"
  /\ x_i < Len(x_ops)
  /\ x_ops[x_i + 1].computation
  /\ SplitInputsOk(x_i)
  /\ x_rpcs' = Append(x_rpcs, x_i)
  /\ x_pc' = "run_failed"
  /\ UNCHANGED <<x_split_mode, x_ops, x_i, x_uses, x_ops_outputs, x_plan,
                 x_result_shapes, x_results, x_resets>>
  /\ UNCHANGED notChain

ChainNext ==
  \/ ExecuteChainedXrt
  \/ XrtPlanOp
  \/ XrtRun
  \/ XrtRunFail
  \/ ExecuteChainedSplit
  \/ ExecuteChainedSplitCorrupt
  \/ SplitOp
  \/ SplitOpCheckFails
  \/ SplitOpOutputCheckFails
  \/ SplitOpRunFail

\* some computation op of ops has an input whose op_index is its own index or
\* a later one
HasForwardInput(ops) ==
  \E i \in 0..(Len(ops) - 1) : \E k \in DOMAIN ops[i + 1].inputs :
    ops[i + 1].inputs[k] >= i

\* C8 (as stated): a sequence in which an input names an op index >= the
\* index of its op is rejected before any RPC is issued, in both modes.
\* Refuted in split mode: the ops before the offending one have run.
C8_RejectedBeforeAnyRpc ==
  HasForwardInput(x_ops) => x_rpcs = <<>>

\* C8, the part that holds: such a sequence never returns results, in either
\* mode, and ExecuteChainedXrt rejects it before its RPC.
C8_RejectedAndXrtBeforeRpc ==
  HasForwardInput(x_ops) =>
    /\ x_pc # "returned"
    /\ ~x_split_mode => x_rpcs = <<>>

\* split mode has run the computation of op 0 and then rejected op 1
C8_SplitRanBeforeReject ==
  /\ x_split_mode
  /\ x_pc = "check_failed"
  /\ x_rpcs # <<>>
  /\ HasForwardInput(x_ops)

\* the outputs of ops as <<op, k>>, op 0-based, k a position of its outputs
DeclaredOutputs(ops) ==
  UNION {{<<i, k>> : k \in DOMAIN ops[i + 1].outputs} :
           i \in 0..(Len(ops) - 1)}

\* output <<i, k>> is the last of ops that names its result slot
LastForSlot(ops, i, k) ==
  \A o \in DeclaredOutputs(ops) :
    ops[o[1] + 1].outputs[o[2]].result_index
        = ops[i + 1].outputs[k].result_index
      => \/ o[1] < i
         \/ o[1] = i /\ o[2] <= k

\* the shape the result of an output has by its declaration: the whole shape
\* of the op, or its tuple element at output_index
DeclaredShape(op, output) ==
  IF output.output_index = <<>> THEN op.shape
  ELSE GetTupleElementShape(op.shape, output.output_index[1])

\* the number of result slots the outputs of ops call for
SlotsOf(ops) ==
  LET slots == {ops[o[1] + 1].outputs[o[2]].result_index :
                  o \in DeclaredOutputs(ops)}
  IN  IF slots = {} THEN 0
      ELSE 1 + CHOOSE r \in slots : \A q \in slots : q <= r

\* C27 (as stated): when a chained execution returns, the result in the slot
\* of every declared output has the whole shape of the op when the output has
\* no output_index and the shape of the tuple element at output_index when it
\* has one, and the results are as many as the largest result_index plus one,
\* in both modes.  Refuted in split mode: a computation with a tuple result
\* and an output without output_index gets the shape of tuple element 0.
C27_ResultShapes ==
  x_pc = "returned" =>
    /\ Len(x_results) = SlotsOf(x_ops)
    /\ \A o \in DeclaredOutputs(x_ops) :
         LastForSlot(x_ops, o[1], o[2]) =>
           LET op == x_ops[o[1] + 1]
           IN  x_results[op.outputs[o[2]].result_index + 1].shape
                 = DeclaredShape(op, op.outputs[o[2]])

\* C27, the part that holds: the results are as many as the largest
\* result_index plus one in both modes, and ExecuteChainedXrt gives every
\* slot the declared shape.
C27_SizedAndXrtShapes ==
  x_pc = "returned" =>
    /\ Len(x_results) = SlotsOf(x_ops)
    /\ ~x_split_mode =>
         \A o \in DeclaredOutputs(x_ops) :
           LastForSlot(x_ops, o[1], o[2]) =>
             LET op == x_ops[o[1] + 1]
             IN  x_results[op.outputs[o[2]].result_index + 1].shape
                   = DeclaredShape(op, op.outputs[o[2]])

\* split mode has returned tuple element 0 of a computation for an output
\* that has no output_index
C27_SplitReturnsFirstElement ==
  /\ x_split_mode
  /\ x_pc = "returned"
  /\ \E o \in DeclaredOutputs(x_ops) :
       LET op == x_ops[o[1] + 1]
           output == op.outputs[o[2]]
       IN  /\ op.computation
           /\ op.shape.tuple
           /\ output.output_index = <<>>
           /\ LastForSlot(x_ops, o[1], o[2])
           /\ x_results[output.result_index + 1]
                = ElementOf(o[1], op.shape, 0)

\* the computation ops among the first i ops, in op order
ComputationsBefore(ops, i) ==
  LET IsComputation(j) == ops[j + 1].computation
  IN  SelectSeq([k \in 1..i |-> k - 1], IsComputation)

\* the ops that have op j among their inputs
ConsumersOf(ops, j) ==
  {c \in 0..(Len(ops) - 1) : CountOf(ops[c + 1].inputs, j) > 0}

\* C28: in split mode, after i turns of the loop the RPCs made are those of
\* the computation ops among the first i ops, one each and in op order, and
\* the session was reset i times; the tracked outputs of an op already
\* processed are empty exactly when the op has consumers and the last of
\* them was processed, and are the outputs of the op otherwise; a turn of
\* the loop makes at most the one RPC of its own op.
C28_SplitOnePerOpInOrder ==
  /\ [](x_split_mode /\ x_pc \in {"loop", "returned"} =>
          /\ x_rpcs = ComputationsBefore(x_ops, x_i)
          /\ x_resets = x_i
          /\ \A j \in 0..(x_i - 1) :
               IF /\ ConsumersOf(x_ops, j) # {}
                  /\ \A c \in ConsumersOf(x_ops, j) : c < x_i
                 THEN x_ops_outputs[j + 1] = <<>>
                 ELSE x_ops_outputs[j + 1] = SplitOutputsOf(j))
  /\ [][SplitOp =>
          /\ x_rpcs' = IF x_ops[x_i + 1].computation
                         THEN Append(x_rpcs, x_i) ELSE x_rpcs
          /\ x_resets' = x_resets + 1
          /\ \A j \in 0..(Len(x_ops) - 1) :
               x_ops_outputs'[j + 1] = <<>> /\ x_ops_outputs[j + 1] # <<>>
                 => /\ x_i \in ConsumersOf(x_ops, j)
                    /\ x_uses'[j + 1] = 0]_vars

\* a split-mode call has returned after two RPCs, with the outputs of a
\* producer dropped and those of the last op still tracked
C28_Witness ==
  /\ x_split_mode
  /\ x_pc = "returned"
  /\ Len(x_rpcs) >= 2
  /\ x_resets = Len(x_ops)
  /\ \E j \in DOMAIN x_ops_outputs : x_ops_outputs[j] = <<>>
  /\ \E j \in DOMAIN x_ops_outputs : x_ops_outputs[j] # <<>>

\* result_shapes of ExecuteChainedXrt after the plan loop over ops
RECURSIVE ResultShapesOf(_, _)
ResultShapesOf(result_shapes, ops) ==
  IF ops = <<>> THEN result_shapes
  ELSE ResultShapesOf(
         XrtResultShapes(result_shapes, Head(ops).shape, Head(ops).outputs),
         Tail(ops))

\* what ExecuteChainedXrt returns for ops none of whose inputs fails the check
\* of line 1076, when its RPC succeeds
ExecuteChainedXrtResults(ops) ==
  XrtResults(ChainedHandles(<<>>, [p \in DOMAIN ops |-> PlanOp(p - 1, ops[p])]),
             ResultShapesOf(<<>>, ops))

\* C29 (as stated): the two modes return the same results for the same ops,
\* slot by slot the same producing op, the same selection of its output and
\* the same shape, and reject the same sequences: a call that returns, in
\* either mode, returns what ExecuteChainedXrt returns for its ops, and a call
\* is rejected by a check exactly for ops that ExecuteChainedXrt rejects.
\* Refuted in split mode, by a tuple result without output_index and by
\* tuple-shaped data with an output_index.
C29_SameContract ==
  /\ x_pc = "returned" =>
       /\ ~HasForwardInput(x_ops)
       /\ x_results = ExecuteChainedXrtResults(x_ops)
  /\ x_pc = "check_failed" => HasForwardInput(x_ops)

\* no output of ops is one the two modes read differently: an output of a
\* tuple-shaped computation has an output_index, one of tuple-shaped data
\* has none
ReadAlike(ops) ==
  \A o \in DeclaredOutputs(ops) :
    LET op == ops[o[1] + 1]
    IN  op.shape.tuple =>
          (op.computation <=> op.outputs[o[2]].output_index # <<>>)

\* C29, the part that holds: for ops without such outputs the two modes
\* return the same results and reject the same sequences.
C29_SameContractWhenReadAlike ==
  ReadAlike(x_ops) =>
    /\ x_pc = "returned" =>
         /\ ~HasForwardInput(x_ops)
         /\ x_results = ExecuteChainedXrtResults(x_ops)
    /\ x_pc = "check_failed" => HasForwardInput(x_ops)

\* split mode has returned results that differ from those of
\* ExecuteChainedXrt for the same ops
C29_SplitReturnsOtherResults ==
  /\ x_split_mode
  /\ x_pc = "returned"
  /\ Len(x_results) = Len(ExecuteChainedXrtResults(x_ops))
  /\ x_results # ExecuteChainedXrtResults(x_ops)

\* split mode has rejected ops that ExecuteChainedXrt accepts
C29_SplitRejectsAccepted ==
  /\ x_split_mode
  /\ x_pc = "check_failed"
  /\ ~HasForwardInput(x_ops)

(***************************************************************************)
(* ExecuteReplicated (lines 940-958), ExecuteParallel (lines 1023-1038),   *)
(* CreateExecuteOps (lines 1357-1421) and RunComputations (lines 960-1021).*)
(* Replica i (0-based) is at position i + 1 of computations, arguments,    *)
(* devices, exec_ops and results.  A computation is named by a number:     *)
(* ExecuteReplicated runs computation 0 on every replica, ExecuteParallel  *)
(* computation i + 1 on replica i.                                         *)
(***************************************************************************)
ExecIdle ==
  /\ e_computations = <<>>
  /\ e_arguments = <<>>
  /\ e_devices = <<>>
  /\ e_pc = "idle"
  /\ e_session_map = {}
  /\ e_exec_ops = <<>>
  /\ e_runners = <<>>
  /\ e_results = <<>>
  /\ e_rpcs = <<>>

\* the device names a caller passes: full names and the empty name
DeviceNames == DOMAIN options.global_device_map \cup {EmptyDevice}

\* the argument lists of one replica: none, or one data on some device
ArgumentLists ==
  {<<>>} \cup {<<device>> : device \in DOMAIN options.global_device_map}

\* ExecuteReplicated, lines 950-951: computations is devices.size() times the
\* one computation
ReplicatedComputations(n) == [i \in 1..n |-> 0]

ParallelComputations(n) == [i \in 1..n |-> i]

ExecInit ==
  /\ \E n \in 1..MaxExecDevices :
       /\ e_devices \in [1..n -> DeviceNames]
       /\ e_arguments \in [1..n -> ArgumentLists]
       /\ e_computations \in {ReplicatedComputations(n),
                              ParallelComputations(n)}
  /\ e_pc = "call"
  /\ e_session_map = {}
  /\ e_exec_ops = <<>>
  /\ e_runners = <<>>
  /\ e_results = <<>>
  /\ e_rpcs = <<>>

\* a device name that no device of the client has
AbsentDevice == Device("XLA", 0)

\* any call of ExecuteComputation, ExecuteReplicated or ExecuteParallel, the
\* devices it names being of the client or not
ExecCheckedInit ==
  /\ \E n \in 1..MaxExecDevices :
       /\ e_devices \in [1..n -> DeviceNames \cup {AbsentDevice}]
       /\ e_arguments \in [1..n -> ArgumentLists]
       /\ \/ /\ e_computations \in {ReplicatedComputations(n),
                                     ParallelComputations(n)}
             /\ e_pc = "call"
          \/ /\ n = 1
             /\ e_computations = <<0>>
             /\ e_pc = "call_one"
  /\ e_session_map = {}
  /\ e_exec_ops = <<>>
  /\ e_runners = <<>>
  /\ e_results = <<>>
  /\ e_rpcs = <<>>

\* SwiftDeviceToXrtDevice, lines 1294-1297: the XLA_CHECK that the device is
\* one of the global device map
DeviceInMap(device) ==
  GetEffectiveDevice(device) \in DOMAIN options.global_device_map

\* no argument is compared with the device
ArgumentsAnywhere(arguments, device) == TRUE

\* GetArgumentsInputs, lines 1344-1355: the XLA_CHECK_EQ of line 1351 holds
\* for every argument
ArgumentsOnDevice(arguments, device) ==
  \A k \in DOMAIN arguments : device = arguments[k]

\* an execution config that hands the inputs and the program to the server
XRTExecutionConfigReleasing(explode_tuple) ==
  [release_input_handles |-> TRUE,
   release_compilation_handle |-> TRUE,
   return_exploded_tuple |-> explode_tuple]

\* CreateExecuteOps, lines 1377-1385 (1408-1416): the XRTExecutionConfig fed
\* to every execute node
XRTExecutionConfig(explode_tuple) ==
  [release_input_handles |-> FALSE,
   release_compilation_handle |-> FALSE,
   return_exploded_tuple |-> explode_tuple]

\* CreateExecuteOps, lines 1363-1386 (1400-1418): the execute node of replica
\* i, with what is fed to it
ExecuteOp(i) ==
  [session |-> GetSessionForXrtDevice(SwiftDeviceToXrtDevice(e_devices[i])),
   xrt_device |-> SwiftDeviceToXrtDevice(e_devices[i]),
   computation |-> e_computations[i],
   exec_config |-> XRTExecutionConfig(FALSE),
   inputs |-> e_arguments[i]]

\* RunComputations, lines 980-985: the replicas of the session, in the order
\* of devices
SessionReplicas(session) ==
  LET OfSession(i) ==
        GetWorkerForDevice(GetEffectiveDevice(e_devices[i]))[2] = session
  IN  SelectSeq([i \in 1..Len(e_devices) |-> i], OfSession)

\* ExecuteReplicated / ExecuteParallel up to the scheduling of the session
\* runners: CreateExecuteOps and lines 960-990 and 1018 of RunComputations
ExecuteCall ==
  /\ e_pc = "call"
  /\ \A i \in DOMAIN e_devices :
       /\ ArgumentsOnDevice(e_arguments[i], e_devices[i])
       /\ DeviceInMap(e_devices[i])
  /\ LET exec_ops == [i \in DOMAIN e_devices |-> ExecuteOp(i)]
         session_map == {exec_ops[i].session : i \in DOMAIN exec_ops}
     IN  /\ e_exec_ops' = exec_ops
         /\ e_session_map' = session_map
         /\ e_runners' = [session \in session_map |->
                            [replicas |-> SessionReplicas(session),
                             pc |-> "scheduled"]]
  /\ e_results' = [i \in DOMAIN e_devices |-> <<>>]
  /\ e_pc' = "running"
  /\ UNCHANGED <<e_computations, e_arguments, e_devices, e_rpcs>>
  /\ UNCHANGED notExec

\* CreateExecuteOps: the XLA_CHECK_EQ of GetArgumentsInputs (line 1351) or the
\* XLA_CHECK of SwiftDeviceToXrtDevice (line 1296) fails for some replica
ExecuteCallCheckFails ==
  /\ e_pc = "call"
  /\ \E i \in DOMAIN e_devices :
       \/ ~ArgumentsOnDevice(e_arguments[i], e_devices[i])
       \/ ~DeviceInMap(e_devices[i])
  /\ e_pc' = "check_failed"
  /\ UNCHANGED <<e_computations, e_arguments, e_devices, e_session_map,
                 e_exec_ops, e_runners, e_results, e_rpcs>>
  /\ UNCHANGED notExec

\* the server's result for one execute node
ServerExecute(exec_op) ==
  [xrt_device |-> exec_op.xrt_device, computation |-> exec_op.computation,
   inputs |-> exec_op.inputs]

\* GetComputationResults, lines 1702-1721: the XrtData made of one output
GetComputationResults(xrt_result, device_name) ==
  <<[device |-> device_name, value |-> xrt_result]>>

\* outputs[i] is stored as the result of replica i
ReplicaDirect(replicas, i) == i

\* line 1011: auto replica = replicas[i]
ReplicaOf(replicas, i) == replicas[i]

\* every execute node is run in an RPC of its own
RunPerNode(session, exec_nodes) ==
  [k \in DOMAIN exec_nodes |->
     [session |-> session, exec_nodes |-> <<exec_nodes[k]>>]]

\* lines 1003-1004: session->Run(feed_inputs, exec_nodes, &outputs), the one
\* RPC of the session runner
SessionRun(session, exec_nodes) ==
  <<[session |-> session, exec_nodes |-> exec_nodes]>>

\* session_runner, lines 992-1016: the run RPC of the session succeeds
RunComputationsRunner(session) ==
  /\ e_pc = "running"
  /\ session \in DOMAIN e_runners
  /\ e_runners[session].pc = "scheduled"
  /\ LET replicas == e_runners[session].replicas
         exec_nodes == [k \in DOMAIN replicas |-> e_exec_ops[replicas[k]]]
         outputs == [k \in DOMAIN exec_nodes |-> ServerExecute(exec_nodes[k])]
         Filled(r) == {k \in DOMAIN outputs : ReplicaOf(replicas, k) = r}
     IN  /\ e_rpcs' = e_rpcs \o SessionRun(session, exec_nodes)
         /\ e_results' = [r \in DOMAIN e_results |->
              IF Filled(r) = {} THEN e_results[r]
              ELSE LET k == CHOOSE k \in Filled(r) :
                              \A j \in Filled(r) : j <= k
                   IN  GetComputationResults(
                         outputs[k], GetEffectiveDevice(e_devices[r]))]
  /\ e_runners' = [e_runners EXCEPT ![session].pc = "done"]
  /\ UNCHANGED <<e_computations, e_arguments, e_devices, e_pc, e_session_map,
                 e_exec_ops>>
  /\ UNCHANGED notExec

\* lines 1002-1006: the run RPC of the session fails and
\* CheckComputationStatus reports it
RunComputationsRunnerFail(session) ==
  /\ e_pc = "running"
  /\ session \in DOMAIN e_runners
  /\ e_runners[session].pc = "scheduled"
  /\ LET replicas == e_runners[session].replicas
     IN  e_rpcs' = e_rpcs \o
           SessionRun(session,
                      [k \in DOMAIN replicas |-> e_exec_ops[replicas[k]]])
  /\ e_runners' = [e_runners EXCEPT ![session].pc = "failed"]
  /\ UNCHANGED <<e_computations, e_arguments, e_devices, e_pc, e_session_map,
                 e_exec_ops, e_results>>
  /\ UNCHANGED notExec

\* lines 1019-1020: mwait.Wait() ends when every runner has ended; the call
\* returns results unless a runner failed
RunComputationsWait ==
  /\ e_pc = "running"
  /\ \A session \in DOMAIN e_runners : e_runners[session].pc # "scheduled"
  /\ e_pc' = IF \E session \in DOMAIN e_runners :
                  e_runners[session].pc = "failed"
               THEN "run_failed" ELSE "returned"
  /\ UNCHANGED <<e_computations, e_arguments, e_devices, e_session_map,
                 e_exec_ops, e_runners, e_results, e_rpcs>>
  /\ UNCHANGED notExec

\* ExecuteComputation, lines 914-938: CreateExecuteOps for the effective
\* device, then the run RPC on the calling thread, which succeeds
ExecuteComputation ==
  /\ e_pc = "call_one"
  /\ LET effective_device == GetEffectiveDevice(e_devices[1])
     IN  /\ ArgumentsOnDevice(e_arguments[1], effective_device)
         /\ DeviceInMap(effective_device)
         /\ e_exec_ops' = <<ExecuteOp(1)>>
         /\ e_session_map' = {ExecuteOp(1).session}
         /\ e_rpcs' = e_rpcs \o SessionRun(ExecuteOp(1).session, <<ExecuteOp(1)>>)
         /\ e_results' = <<GetComputationResults(ServerExecute(ExecuteOp(1)),
                                                 effective_device)>>
  /\ e_pc' = "returned_one"
  /\ UNCHANGED <<e_computations, e_arguments, e_devices, e_runners>>
  /\ UNCHANGED notExec

\* lines 930-933: the run RPC fails and CheckComputationStatus reports it
ExecuteComputationRunFails ==
  /\ e_pc = "call_one"
  /\ LET effective_device == GetEffectiveDevice(e_devices[1])
     IN  /\ ArgumentsOnDevice(e_arguments[1], effective_device)
         /\ DeviceInMap(effective_device)
         /\ e_exec_ops' = <<ExecuteOp(1)>>
         /\ e_session_map' = {ExecuteOp(1).session}
         /\ e_rpcs' = e_rpcs \o SessionRun(ExecuteOp(1).session, <<ExecuteOp(1)>>)
  /\ e_pc' = "run_failed_one"
  /\ UNCHANGED <<e_computations, e_arguments, e_devices, e_runners, e_results>>
  /\ UNCHANGED notExec

\* lines 923-926: a check of CreateExecuteOps fails
ExecuteComputationCheckFails ==
  /\ e_pc = "call_one"
  /\ LET effective_device == GetEffectiveDevice(e_devices[1])
     IN  \/ ~ArgumentsOnDevice(e_arguments[1], effective_device)
         \/ ~DeviceInMap(effective_device)
  /\ e_pc' = "check_failed_one"
  /\ UNCHANGED <<e_computations, e_arguments, e_devices, e_session_map,
                 e_exec_ops, e_runners, e_results, e_rpcs>>
  /\ UNCHANGED notExec

ExecCheckedNext ==
  \/ ExecuteCall
  \/ ExecuteCallCheckFails
  \/ \E session \in Targets : RunComputationsRunner(session)
  \/ \E session \in Targets : RunComputationsRunnerFail(session)
  \/ RunComputationsWait
  \/ ExecuteComputation
  \/ ExecuteComputationRunFails
  \/ ExecuteComputationCheckFails

ExecNext ==
  \/ ExecuteCall
  \/ ExecuteCallCheckFails
  \/ \E session \in Targets : RunComputationsRunner(session)
  \/ \E session \in Targets : RunComputationsRunnerFail(session)
  \/ RunComputationsWait

\* the RPC targets of the workers that own the devices of the call
DeviceTargets ==
  {options.workers_map[Worker(SwiftDeviceToXrtDevice(e_devices[i]).job,
                              SwiftDeviceToXrtDevice(e_devices[i]).task)] :
     i \in DOMAIN e_devices}

\* C9: in ExecuteReplicated and ExecuteParallel the sessions used and the run
\* RPCs issued are one per distinct RPC target among the given devices: no
\* session gets two RPCs, every RPC goes to the session of a target of the
\* devices, and once every runner has ended there is one RPC per target.
C9_OneSessionAndRpcPerTarget ==
  /\ e_pc \in {"running", "returned", "run_failed"} =>
       /\ Cardinality(e_session_map) = Cardinality(DeviceTargets)
       /\ Cardinality(DOMAIN e_runners) = Cardinality(DeviceTargets)
  /\ \A j \in DOMAIN e_rpcs : \A k \in DOMAIN e_rpcs :
       e_rpcs[j].session = e_rpcs[k].session => j = k
  /\ Len(e_rpcs) <= Cardinality(DeviceTargets)
  /\ e_pc \in {"returned", "run_failed"} =>
       Len(e_rpcs) = Cardinality(DeviceTargets)
  /\ e_pc \in {"call", "check_failed"} => e_rpcs = <<>>

\* two devices of one endpoint were run with one session and one RPC
C9_Witness ==
  /\ e_pc = "returned"
  /\ Len(e_devices) = 2
  /\ e_devices[1] # e_devices[2]
  /\ EmptyDevice \notin Range(e_devices)
  /\ Cardinality(DeviceTargets) = 1
  /\ Len(e_rpcs) = 1
  /\ Len(e_rpcs[1].exec_nodes) = 2

\* what replica i of the call is to produce: computation i run on device i
\* with arguments i, as data of that device
ExpectedResult(i) ==
  <<[device |-> GetEffectiveDevice(e_devices[i]),
     value |-> [xrt_device |->
                  options.global_device_map[GetEffectiveDevice(e_devices[i])],
                computation |-> e_computations[i],
                inputs |-> e_arguments[i]]]>>

\* C10: the list ExecuteReplicated / ExecuteParallel returns has one entry per
\* device and entry i holds the results produced for device i and computation
\* i, whatever the grouping into sessions and the order in which the session
\* runners end; while the call runs, an entry that is set is the right one.
C10_ResultsInDeviceOrder ==
  /\ e_pc \in {"running", "returned", "run_failed"} =>
       /\ Len(e_results) = Len(e_devices)
       /\ \A i \in DOMAIN e_results :
            e_results[i] # <<>> => e_results[i] = ExpectedResult(i)
  /\ e_pc = "returned" =>
       \A i \in DOMAIN e_results : e_results[i] = ExpectedResult(i)

\* three replicas over two sessions, the session of replica 1 (0-based) having
\* ended first, all results returned
C10_Witness ==
  /\ e_pc = "returned"
  /\ Len(e_devices) = 3
  /\ Len(e_rpcs) = 2
  /\ Len(e_rpcs[2].exec_nodes) = 2
  /\ e_rpcs[2].exec_nodes[1] = e_exec_ops[1]
  /\ e_rpcs[2].exec_nodes[2] = e_exec_ops[3]
  /\ e_computations[3] = 3

\* replica i's results have reached the caller: RunComputations has returned
\* the results vector and entry i is set
Delivered(i) ==
  e_pc = "returned" /\ e_results[i] # <<>>

\* C12 (as stated): when the run RPC of one session fails, only that group is
\* aborted, and the results of the groups run under the other sessions are
\* still delivered. Refuted under SpecExec: the groups of one call share the
\* one results vector that RunComputations returns after mwait.Wait() (lines
\* 1017-1020), so the failure of one group ends the call without a return and
\* the results the other runners stored are lost with it.
C12_OtherGroupsDelivered ==
  e_pc \in {"returned", "run_failed"} =>
    \A session \in DOMAIN e_runners :
      e_runners[session].pc = "done" =>
        \A k \in DOMAIN e_runners[session].replicas :
          Delivered(e_runners[session].replicas[k])

\* C12, the part that holds: a failed run RPC carried exactly the execute
\* nodes of the replicas of its session, the runners of the other sessions
\* still ran their RPC and stored their results, and the failed group stored
\* none.
C12_FailureConfinedToGroup ==
  e_pc \in {"returned", "run_failed"} =>
    \A session \in DOMAIN e_runners :
      LET replicas == e_runners[session].replicas
      IN  /\ \E j \in DOMAIN e_rpcs :
               /\ e_rpcs[j].session = session
               /\ e_rpcs[j].exec_nodes =
                    [k \in DOMAIN replicas |-> e_exec_ops[replicas[k]]]
          /\ \A k \in DOMAIN replicas :
               IF e_runners[session].pc = "done"
                 THEN e_results[replicas[k]] = ExpectedResult(replicas[k])
                 ELSE e_results[replicas[k]] = <<>>

\* two sessions, the run RPC of one failed, the other stored its results, and
\* the call ended without returning them
C12_FailedGroupWitness ==
  /\ e_pc = "run_failed"
  /\ \E s1 \in DOMAIN e_runners : \E s2 \in DOMAIN e_runners :
       /\ e_runners[s1].pc = "failed"
       /\ e_runners[s2].pc = "done"

(***************************************************************************)
(* ComputationClient::Create (lines 565-576), the topology strategies      *)
(* (lines 390-561), PopulateLocalDevices (lines 321-388) and the           *)
(* constructor of XrtComputationClient (lines 592-638).                    *)
(*                                                                         *)
(* The environment k_env holds what the process reads with GetEnvString    *)
(* and GetEnvInt: an integer variable is [set, value], a list variable is  *)
(* [set, value] with the list already split at '|' and ';'.  An RPC        *)
(* address is [grpc, host], grpc telling whether the text starts with      *)
(* "grpc://".  MaybeCreateLocalService and InitializeDevices of the        *)
(* constructor start a local service and query the TPU workers; they touch *)
(* nothing of what is kept here.                                           *)
(***************************************************************************)
EnvUnset == [set |-> FALSE, value |-> 0]

EnvSet(v) == [set |-> TRUE, value |-> v]

\* sys_util::GetEnvInt(name, defval)
GetEnvInt(e, defval) == IF e.set THEN e.value ELSE defval

EnvListUnset == [set |-> FALSE, value |-> <<>>]

\* sys_util::GetEnvString(name, defval), for the list variables
GetEnvString(e, defval) == IF e.set THEN e.value ELSE defval

\* MakeGrpcEndPoint, lines 295-298
MakeGrpcEndPoint(server) == [server EXCEPT !.grpc = TRUE]

\* std::map::emplace of several entries with distinct keys: a key the map
\* holds keeps its value
EmplaceAll(map, new) ==
  [k \in DOMAIN map \cup DOMAIN new |->
     IF k \in DOMAIN map THEN map[k] ELSE new[k]]

\* DeviceCountDefaults, lines 108-112
DeviceCountDefaults == [num_tpus |-> 0, num_gpus |-> 0, num_cpus |-> 1]

\* the devices table of AddXrtHostDevices, lines 396-409
HostDevices(device_counts, env) ==
  <<[name |-> "TPU", tf_name |-> "TPU",
     count |-> GetEnvInt(env.num_tpu, device_counts.num_tpus)],
    [name |-> "GPU", tf_name |-> "XLA_GPU",
     count |-> GetEnvInt(env.num_gpu, device_counts.num_gpus)],
    [name |-> "CPU", tf_name |-> "XLA_CPU",
     count |-> GetEnvInt(env.num_cpu, device_counts.num_cpus)]>>

\* AddXrtHostDevices, lines 390-422: the options and the device ordinals after
\* the devices of one host are added
AddXrtHostDevices(worker_name, task_no, server, device_counts, device_ordinals, opts, env) ==
  LET devices == HostDevices(device_counts, env)
      Added(k) ==
        [d \in {Device(devices[k].name, device_ordinals[devices[k].name] + j) :
                  j \in 0..(devices[k].count - 1)} |->
           GetXrtDevicePath(worker_name, task_no, devices[k].tf_name,
                            d.ordinal - device_ordinals[devices[k].name])]
      new == EmplaceAll(EmplaceAll(Added(1), Added(2)), Added(3))
      Count(kind) == LET k == CHOOSE k \in 1..3 : devices[k].name = kind
                     IN  IF devices[k].count > 0 THEN devices[k].count ELSE 0
  IN  [options |->
         [opts EXCEPT
            !.workers_map =
               EmplaceAll(@, [w \in {Worker(worker_name, task_no)} |->
                                MakeGrpcEndPoint(server)]),
            !.global_device_map = EmplaceAll(@, new)],
       device_ordinals |->
         [kind \in DOMAIN device_ordinals |->
            device_ordinals[kind] + Count(kind)]]

NoOrdinals == [kind \in {"TPU", "GPU", "CPU"} |-> 0]

\* the number of TPUs of a host of the cluster spec when XRT_NUM_TPU is not
\* set, line 433
DefaultClusterTpus == 8

\* the loop of ParseEnvBasedTpuClusterConfig, lines 434-439
RECURSIVE AddClusterHosts(_, _, _, _)
AddClusterHosts(spec_parts, device_ordinals, opts, env) ==
  IF spec_parts = <<>> THEN opts
  ELSE LET host_parts == Head(spec_parts)
           added == AddXrtHostDevices(
                      host_parts.worker, host_parts.task_no, host_parts.server,
                      [DeviceCountDefaults EXCEPT
                         !.num_tpus = DefaultClusterTpus],
                      device_ordinals, opts, env)
       IN  AddClusterHosts(Tail(spec_parts), added.device_ordinals,
                           added.options, env)

\* ParseEnvBasedTpuClusterConfig, lines 424-441
ParseEnvBasedTpuClusterConfig(opts, env) ==
  IF env.tpu_config = <<>> THEN [ok |-> FALSE, options |-> opts]
  ELSE [ok |-> TRUE,
        options |-> AddClusterHosts(env.tpu_config, NoOrdinals, opts, env)]

\* the address of the local service, "localhost:" with a port picked at run
\* time (lines 528-529, 545-547)
LocalHostPort == [grpc |-> FALSE, host |-> "localhost"]

\* ParseEnvDeviceCounts, lines 523-534
ParseEnvDeviceCounts(opts, env) ==
  LET num_tpus == GetEnvInt(env.num_tpu, -1)
      num_gpus == GetEnvInt(env.num_gpu, -1)
      added == IF num_tpus > 0 \/ num_gpus > 0
                 THEN AddXrtHostDevices("localservice", 0, LocalHostPort,
                                        DeviceCountDefaults, NoOrdinals, opts,
                                        env).options
                 ELSE opts
  IN  [ok |-> DOMAIN added.global_device_map # {}, options |-> added]

\* XrtComputationClient::ParseWorker, lines 2121-2127: "name" or "name:task"
ParseWorker(parts) ==
  IF Len(parts) = 1 THEN Worker(parts[1], 0) ELSE Worker(parts[1], parts[2])

\* the device map and the workers ParseEnvDevices uses when the variables are
\* not set, lines 538-547
DefaultDeviceSpec ==
  <<[device |-> Device("CPU", 0),
     xrt_device |-> GetXrtDevicePath("localservice", 0, "XLA_CPU", 0)]>>

DefaultWorkersSpec ==
  <<[worker |-> <<"localservice", 0>>,
     server |-> MakeGrpcEndPoint(LocalHostPort)]>>

\* the index of the first entry with this key in a list of keys: emplace
\* keeps the first
FirstOf(keys, key) ==
  CHOOSE k \in DOMAIN keys :
    /\ keys[k] = key
    /\ \A j \in DOMAIN keys : keys[j] = key => k <= j

\* ParseEnvDevices, lines 536-561
ParseEnvDevices(opts, env) ==
  LET device_spec == GetEnvString(env.device_map, DefaultDeviceSpec)
      workers_spec == GetEnvString(env.workers, DefaultWorkersSpec)
      device_names == [k \in DOMAIN device_spec |-> device_spec[k].device]
      worker_names == [k \in DOMAIN workers_spec |->
                         ParseWorker(workers_spec[k].worker)]
      devices == [d \in Range(device_names) |->
                    device_spec[FirstOf(device_names, d)].xrt_device]
      workers == [w \in Range(worker_names) |->
                    MakeGrpcEndPoint(
                      workers_spec[FirstOf(worker_names, w)].server)]
      added == IF device_spec # <<>> /\ workers_spec # <<>>
                 THEN [opts EXCEPT
                         !.global_device_map = EmplaceAll(@, devices),
                         !.workers_map = EmplaceAll(@, workers)]
                 ELSE opts
  IN  [ok |-> DOMAIN added.global_device_map # {}, options |-> added]

\* the loop of ParseMeshConfig over the workers of the mesh configuration,
\* lines 465-480
RECURSIVE AddMeshWorkers(_, _, _, _)
AddMeshWorkers(config_workers, local_worker, opts, env) ==
  IF config_workers = <<>> THEN opts
  ELSE LET config_worker == Head(config_workers)
           worker == Worker(config_worker.name, config_worker.task_no)
           global_names == [k \in DOMAIN config_worker.devices |->
                              config_worker.devices[k].global_name]
           devices ==
             [d \in Range(global_names) |->
                LET local_device ==
                      config_worker.devices[FirstOf(global_names, d)].local_name
                IN  GetXrtDevicePath(worker.name, worker.task_no,
                                     local_device.kind, local_device.ordinal)]
           local == {d \in DOMAIN devices :
                       /\ local_worker = worker
                       /\ env.mp_device = EmptyDevice \/ d = env.mp_device}
       IN  AddMeshWorkers(
             Tail(config_workers), local_worker,
             [opts EXCEPT
                !.workers_map =
                   EmplaceAll(@, [w \in {worker} |-> config_worker.address]),
                !.global_device_map = EmplaceAll(@, devices),
                !.devices = @ \cup local],
             env)

\* ParseMeshConfig, lines 443-485: fatal when a mesh client exists and
\* XRT_LOCAL_WORKER is not set (line 452)
ParseMeshConfig(opts, env) ==
  IF ~env.mesh.client THEN [ok |-> FALSE, fatal |-> FALSE, options |-> opts]
  ELSE IF env.local_worker = <<>>
    THEN [ok |-> FALSE, fatal |-> TRUE, options |-> opts]
    ELSE [ok |-> TRUE, fatal |-> FALSE,
          options |-> AddMeshWorkers(env.mesh.workers,
                                     ParseWorker(env.local_worker), opts, env)]

\* BuildTaskDeviceKey, lines 306-308
BuildTaskDeviceKey(task_no, kind) == <<task_no, kind>>

\* the least element of a non-empty set of integers
Min(S) == CHOOSE m \in S : \A n \in S : m <= n

\* BuildDeviceTaskMap, lines 341-356: from "TASK:KIND" to the least global
\* ordinal of the devices of that kind on that task
BuildDeviceTaskMap(opts) ==
  LET map == opts.global_device_map
      KeyOf(d) == BuildTaskDeviceKey(map[d].task, d.kind)
  IN  [key \in {KeyOf(d) : d \in DOMAIN map} |->
         Min({d.ordinal : d \in {e \in DOMAIN map : KeyOf(e) = key}})]

\* IsLocalDevice, lines 321-339
IsLocalDevice(worker, parsed_device, dev_task_map, mp_device) ==
  IF worker.name # parsed_device.job \/ worker.task_no # parsed_device.task
    THEN FALSE
  ELSE IF mp_device = EmptyDevice THEN TRUE
  ELSE LET task_device_key ==
             BuildTaskDeviceKey(parsed_device.task, mp_device.kind)
       IN  IF task_device_key \in DOMAIN dev_task_map
             THEN mp_device.ordinal =
                    dev_task_map[task_device_key] + parsed_device.id
             ELSE FALSE

\* the loop of lines 381-387: the first kind of TPU, GPU, CPU that has a
\* minimum ordinal gives the default device
DefaultDeviceOf(min_ordinals, default_device) ==
  IF "TPU" \in DOMAIN min_ordinals THEN Device("TPU", min_ordinals["TPU"])
  ELSE IF "GPU" \in DOMAIN min_ordinals THEN Device("GPU", min_ordinals["GPU"])
  ELSE IF "CPU" \in DOMAIN min_ordinals THEN Device("CPU", min_ordinals["CPU"])
  ELSE default_device

\* PopulateLocalDevices, lines 358-388
PopulateLocalDevices(opts, env) ==
  LET worker == IF env.local_worker # <<>> THEN ParseWorker(env.local_worker)
                ELSE Worker("", -1)
      dev_task_map == BuildDeviceTaskMap(opts)
      map == opts.global_device_map
      inserted == {d \in DOMAIN map :
                     worker.task_no >= 0 =>
                       IsLocalDevice(worker, map[d], dev_task_map,
                                     env.mp_device)}
      min_ordinals ==
        [kind \in {d.kind : d \in inserted} |->
           Min({d.ordinal : d \in {e \in inserted : e.kind = kind}})]
  IN  [opts EXCEPT
         !.devices = @ \cup inserted,
         !.default_device = DefaultDeviceOf(min_ordinals, @)]

\* Bounds of the environments
MaxEnvTpus == 2
MaxEnvGpus == 1
MaxMpOrdinal == 1
MaxLocalGpus == 1

EmptyOptions ==
  [global_device_map |-> <<>>, workers_map |-> <<>>, devices |-> {},
   default_device |-> EmptyDevice]

\* the environments of the model.
\*   XRT_TPU_CONFIG: not set, one host, two hosts
\*   XRT_NUM_TPU, XRT_NUM_GPU, XRT_NUM_CPU: not set or a count
\*   XRT_DEVICE_MAP: not set, empty, two GPUs and a CPU of job "w"
\*   XRT_WORKERS: not set, empty, the two tasks of job "w"
\*   the mesh service: none, one that knows no worker, one with two workers
\*   of one TPU and one CPU each
\*   XRT_LOCAL_WORKER: not set, "w", "w:1", "localservice:0"
\*   XRT_MULTI_PROCESSING_DEVICE: not set or a TPU
Environments ==
  LET server_a == [grpc |-> FALSE, host |-> "a"]
      server_b == [grpc |-> TRUE, host |-> "b"]
      mesh_devices(n) ==
        <<[global_name |-> Device("TPU", n), local_name |-> Device("TPU", 0)],
          [global_name |-> Device("CPU", n), local_name |-> Device("CPU", 0)]>>
  IN  [tpu_config :
         {<<>>,
          <<[worker |-> "w", task_no |-> 0, server |-> server_a]>>,
          <<[worker |-> "w", task_no |-> 0, server |-> server_a],
            [worker |-> "w", task_no |-> 1, server |-> server_b]>>},
       num_tpu : {EnvUnset} \cup {EnvSet(n) : n \in 0..MaxEnvTpus},
       num_gpu : {EnvUnset} \cup {EnvSet(n) : n \in 0..MaxEnvGpus},
       num_cpu : {EnvUnset, EnvSet(0)},
       device_map :
         {EnvListUnset, EnvSet(<<>>),
          EnvSet(<<[device |-> Device("GPU", 1),
                    xrt_device |-> GetXrtDevicePath("w", 0, "XLA_GPU", 1)],
                   [device |-> Device("GPU", 0),
                    xrt_device |-> GetXrtDevicePath("w", 0, "XLA_GPU", 0)],
                   [device |-> Device("CPU", 0),
                    xrt_device |-> GetXrtDevicePath("w", 1, "XLA_CPU", 0)]>>)},
       workers :
         {EnvListUnset, EnvSet(<<>>),
          EnvSet(<<[worker |-> <<"w">>, server |-> server_a],
                   [worker |-> <<"w", 1>>, server |-> server_b]>>)},
       mesh :
         {[client |-> FALSE, workers |-> <<>>],
          [client |-> TRUE, workers |-> <<>>],
          [client |-> TRUE,
           workers |->
             <<[name |-> "w", task_no |-> 0,
                address |-> MakeGrpcEndPoint(server_a),
                devices |-> mesh_devices(0)],
               [name |-> "w", task_no |-> 1,
                address |-> MakeGrpcEndPoint(server_b),
                devices |-> mesh_devices(1)]>>]},
       local_worker : {<<>>, <<"w">>, <<"w", 1>>, <<"localservice", 0>>},
       mp_device :
         {EmptyDevice} \cup {Device("TPU", n) : n \in 0..MaxMpOrdinal}]

\* the environment of a client that is constructed from given options
NoEnvironment ==
  [tpu_config |-> <<>>, num_tpu |-> EnvUnset, num_gpu |-> EnvUnset,
   num_cpu |-> EnvUnset, device_map |-> EnvListUnset,
   workers |-> EnvListUnset, mesh |-> [client |-> FALSE, workers |-> <<>>],
   local_worker |-> <<>>, mp_device |-> EmptyDevice]

\* options handed to the constructor by a caller other than Create: sound
\* ones, ones whose default device, and ones one of whose local devices, is
\* not in the global map
GivenOptions ==
  LET map == [d \in {Device("TPU", 0)} |-> GetXrtDevicePath("w", 0, "TPU", 0)]
      workers == [w \in {Worker("w", 0)} |->
                    [grpc |-> TRUE, host |-> "a"]]
  IN  {[global_device_map |-> map, workers_map |-> workers,
        devices |-> devices, default_device |-> default_device] :
         devices \in {{Device("TPU", 0)}, {Device("TPU", 0), Device("TPU", 1)}},
         default_device \in {Device("TPU", 0), Device("TPU", 1)}}

CreateIdle ==
  /\ k_env = NoEnvironment
  /\ k_options = EmptyOptions
  /\ k_pc = "off"
  /\ k_tried = <<>>
  /\ k_error = ""
  /\ k_started = FALSE
  /\ k_devices = {}

\* Create is called in some environment, or the constructor with some options
CreateInit ==
  /\ \/ /\ k_env \in Environments
        /\ k_options = EmptyOptions
        /\ k_pc = "tpu_cluster"
     \/ /\ k_env = NoEnvironment
        /\ k_options \in GivenOptions
        /\ k_pc = "construct"
  /\ k_tried = <<>>
  /\ k_error = ""
  /\ k_started = FALSE
  /\ k_devices = {}

\* the mesh service is asked before the device counts are looked at
MeshBeforeCounts(strategy) ==
  IF strategy = "tpu_cluster" THEN "mesh"
  ELSE IF strategy = "mesh" THEN "device_counts"
  ELSE IF strategy = "device_counts" THEN "env_devices"
  ELSE "missing"

\* the chain of && of lines 568-570: what follows a strategy that returned
\* false
NextStrategy(strategy) ==
  IF strategy = "tpu_cluster" THEN "device_counts"
  ELSE IF strategy = "device_counts" THEN "env_devices"
  ELSE IF strategy = "env_devices" THEN "mesh"
  ELSE "missing"

\* one operand of lines 568-570 has been evaluated: on true Create goes on to
\* line 573, on false to the next operand, and after the last to the XLA_ERROR
\* of line 571
AfterStrategy(strategy, parsed, fatal) ==
  [options |-> parsed.options,
   pc |-> IF fatal THEN "fatal"
          ELSE IF parsed.ok THEN "populate"
          ELSE IF NextStrategy(strategy) = "missing" THEN "fatal"
          ELSE NextStrategy(strategy),
   error |-> IF fatal THEN "mesh_without_local_worker"
             ELSE IF ~parsed.ok /\ NextStrategy(strategy) = "missing"
               THEN "missing_configuration"
             ELSE ""]

\* line 568: !ParseEnvBasedTpuClusterConfig(&options)
CreateTpuCluster ==
  /\ k_pc = "tpu_cluster"
  /\ LET after == AfterStrategy(
                    "tpu_cluster",
                    ParseEnvBasedTpuClusterConfig(k_options, k_env), FALSE)
     IN  /\ k_options' = after.options
         /\ k_pc' = after.pc
         /\ k_error' = after.error
  /\ k_tried' = Append(k_tried, "tpu_cluster")
  /\ UNCHANGED <<k_env, k_started, k_devices>>
  /\ UNCHANGED notCreate

\* line 569: !ParseEnvDeviceCounts(&options)
CreateDeviceCounts ==
  /\ k_pc = "device_counts"
  /\ LET after == AfterStrategy("device_counts",
                                ParseEnvDeviceCounts(k_options, k_env), FALSE)
     IN  /\ k_options' = after.options
         /\ k_pc' = after.pc
         /\ k_error' = after.error
  /\ k_tried' = Append(k_tried, "device_counts")
  /\ UNCHANGED <<k_env, k_started, k_devices>>
  /\ UNCHANGED notCreate

\* line 569: !ParseEnvDevices(&options)
CreateEnvDevices ==
  /\ k_pc = "env_devices"
  /\ LET after == AfterStrategy("env_devices",
                                ParseEnvDevices(k_options, k_env), FALSE)
     IN  /\ k_options' = after.options
         /\ k_pc' = after.pc
         /\ k_error' = after.error
  /\ k_tried' = Append(k_tried, "env_devices")
  /\ UNCHANGED <<k_env, k_started, k_devices>>
  /\ UNCHANGED notCreate

\* line 570: !ParseMeshConfig(&options, &topology_proto)
CreateMesh ==
  /\ k_pc = "mesh"
  /\ LET parsed == ParseMeshConfig(k_options, k_env)
         after == AfterStrategy("mesh", parsed, parsed.fatal)
     IN  /\ k_options' = after.options
         /\ k_pc' = after.pc
         /\ k_error' = after.error
  /\ k_tried' = Append(k_tried, "mesh")
  /\ UNCHANGED <<k_env, k_started, k_devices>>
  /\ UNCHANGED notCreate

\* lines 573-575: PopulateLocalDevices, then the client is constructed from
\* the options
CreatePopulate ==
  /\ k_pc = "populate"
  /\ k_options' = PopulateLocalDevices(k_options, k_env)
  /\ k_pc' = "construct"
  /\ UNCHANGED <<k_env, k_tried, k_error, k_started, k_devices>>
  /\ UNCHANGED notCreate

\* the constructor checks nothing
NoChecks(opts) == ""

\* the checks of lines 605-612, "" when they hold
ConstructorChecks(opts) ==
  IF opts.default_device \notin DOMAIN opts.global_device_map
    THEN "default_device"
  ELSE IF \E device \in opts.devices :
            device \notin DOMAIN opts.global_device_map
    THEN "missing_device"
  ELSE ""

\* the constructor, lines 592-612: the session caches are made and the options
\* checked
Constructor ==
  /\ k_pc = "construct"
  /\ k_error' = ConstructorChecks(k_options)
  /\ k_pc' = IF ConstructorChecks(k_options) = "" THEN "start" ELSE "fatal"
  /\ UNCHANGED <<k_env, k_options, k_tried, k_started, k_devices>>
  /\ UNCHANGED notCreate

\* lines 626-628: MaybeCreateLocalService, InitializeDevices,
\* StartHandleReleaser
ConstructorStartHandleReleaser ==
  /\ k_pc = "start"
  /\ k_started' = TRUE
  /\ k_pc' = "add_devices"
  /\ UNCHANGED <<k_env, k_options, k_tried, k_error, k_devices>>
  /\ UNCHANGED notCreate

\* lines 630-632: one XrtDevice per entry of the global device map
ConstructorAddDevices ==
  /\ k_pc = "add_devices"
  /\ k_devices' = k_devices \cup DOMAIN k_options.global_device_map
  /\ k_pc' = "local_gpus"
  /\ UNCHANGED <<k_env, k_options, k_tried, k_error, k_started>>
  /\ UNCHANGED notCreate

\* lines 634-637: with any device of the local GPU platform the default device
\* becomes "GPU:0"
DefaultWithLocalGpus(default_device, num_local_gpus) ==
  IF num_local_gpus > 0 THEN Device("GPU", 0) ELSE default_device

\* lines 634-637: GetAllLocalDevicesForPlatform("gpu", "GPU") gives the
\* devices of the GPUs of this machine, num_local_gpus of them; each is
\* registered
ConstructorLocalGpus(num_local_gpus) ==
  /\ k_pc = "local_gpus"
  /\ k_options' = [k_options EXCEPT !.default_device =
                     DefaultWithLocalGpus(@, num_local_gpus)]
  /\ k_devices' = k_devices \cup
                    {Device("GPU", j) : j \in 0..(num_local_gpus - 1)}
  /\ k_pc' = "ready"
  /\ UNCHANGED <<k_env, k_tried, k_error, k_started>>
  /\ UNCHANGED notCreate

CreateNext ==
  \/ CreateTpuCluster
  \/ CreateDeviceCounts
  \/ CreateEnvDevices
  \/ CreateMesh
  \/ CreatePopulate
  \/ Constructor
  \/ ConstructorStartHandleReleaser
  \/ ConstructorAddDevices
  \/ \E num_local_gpus \in 0..MaxLocalGpus :
       ConstructorLocalGpus(num_local_gpus)

(***************************************************************************)
(* Claims on Create and the constructor.                                   *)
(***************************************************************************)
StrategyOrder == <<"tpu_cluster", "device_counts", "env_devices", "mesh">>

\* strategy j of the order, run on fresh options in the environment of the
\* process, returns true
StrategyOk(j) ==
  IF j = 1 THEN ParseEnvBasedTpuClusterConfig(EmptyOptions, k_env).ok
  ELSE IF j = 2 THEN ParseEnvDeviceCounts(EmptyOptions, k_env).ok
  ELSE IF j = 3 THEN ParseEnvDevices(EmptyOptions, k_env).ok
  ELSE ParseMeshConfig(EmptyOptions, k_env).ok

\* Create has left the search for a topology with a success
PastStrategies ==
  k_tried # <<>> /\
  k_pc \in {"populate", "construct", "start", "add_devices", "local_gpus",
            "ready"}

\* C16: Create runs the strategies in the order TPU cluster spec, device
\* counts, device map with workers, mesh service; it stops at the first that
\* succeeds, so that the ones after it are never run; when none succeeds the
\* creation ends fatally, and a creation never completes with an empty global
\* device map.
C16_StrategiesInOrder ==
  /\ [](/\ Len(k_tried) <= Len(StrategyOrder)
        /\ \A j \in DOMAIN k_tried : k_tried[j] = StrategyOrder[j])
  /\ [](PastStrategies =>
          /\ StrategyOk(Len(k_tried))
          /\ \A j \in 1..(Len(k_tried) - 1) : ~StrategyOk(j))
  /\ [][PastStrategies => k_tried' = k_tried]_vars
  /\ [](k_error = "missing_configuration" =>
          /\ k_pc = "fatal"
          /\ k_tried = StrategyOrder
          /\ \A j \in DOMAIN StrategyOrder : ~StrategyOk(j))
  /\ [](k_pc = "ready" => DOMAIN k_options.global_device_map # {})
  /\ []((k_tried = StrategyOrder /\ ~StrategyOk(Len(StrategyOrder))) =>
          k_pc = "fatal")

\* the device map of the environment was used although a mesh service could
\* have been asked: the first three strategies ran, the mesh one did not
C16_Witness ==
  /\ k_pc = "ready"
  /\ k_tried = SubSeq(StrategyOrder, 1, 3)
  /\ StrategyOk(4)

\* the lowest-ordinal device of the first kind, in the order TPU, GPU, CPU,
\* that has a device in the set; the empty name when the set has none
PreferredDevice(devices) ==
  LET OfKind(kind) == {d \in devices : d.kind = kind}
      Lowest(kind) == CHOOSE d \in OfKind(kind) :
                        \A e \in OfKind(kind) : d.ordinal <= e.ordinal
  IN  IF OfKind("TPU") # {} THEN Lowest("TPU")
      ELSE IF OfKind("GPU") # {} THEN Lowest("GPU")
      ELSE IF OfKind("CPU") # {} THEN Lowest("CPU")
      ELSE EmptyDevice

\* C17 (as stated): after the construction of a client made by Create the
\* default device is the lowest-ordinal locally owned device of the first
\* kind, in the order TPU, GPU, CPU, that has a locally owned device.
\* Refuted under SpecCreate: on a machine with devices of the local GPU
\* platform the constructor sets the default device to GPU:0 (lines 634-635),
\* whatever is locally owned.
C17_DefaultIsPreferred ==
  (k_pc = "ready" /\ k_tried # <<>>) =>
    k_options.default_device = PreferredDevice(k_options.devices)

\* C17, the part that holds: the options Create hands to the constructor have
\* that default device, and the constructor keeps it unless the machine has
\* devices of the local GPU platform, in which case the default device becomes
\* GPU:0.
C17_DefaultIsPreferredUnlessLocalGpu ==
  /\ []((k_tried # <<>> /\
         k_pc \in {"construct", "start", "add_devices", "local_gpus"}) =>
          k_options.default_device = PreferredDevice(k_options.devices))
  /\ [][\A n \in 0..MaxLocalGpus :
          (ConstructorLocalGpus(n) /\ k_tried # <<>>) =>
            k_options'.default_device =
              IF n > 0 THEN Device("GPU", 0)
              ELSE PreferredDevice(k_options'.devices)]_vars

\* the client of a host with TPUs, on a machine with a local GPU: its default
\* device is GPU:0, which it does not own
C17_LocalGpuWitness ==
  /\ k_pc = "ready"
  /\ k_tried # <<>>
  /\ k_options.default_device = Device("GPU", 0)
  /\ Device("TPU", 0) \in k_options.devices
  /\ Device("GPU", 0) \notin k_options.devices

\* the devices of the global map whose physical device is of the job and task
\* of the declared local worker
DevicesOfLocalWorker ==
  LET worker == ParseWorker(k_env.local_worker)
      map == k_options.global_device_map
  IN  {d \in DOMAIN map :
         map[d].job = worker.name /\ map[d].task = worker.task_no}

\* Create has resolved the topology and PopulateLocalDevices has run
Populated ==
  k_tried # <<>> /\
  k_pc \in {"construct", "start", "add_devices", "local_gpus", "ready"}

\* C18 (as stated): with a declared local worker the locally owned devices are
\* devices of that worker's job and task, and with multi-processing active
\* only the one device named by XRT_MULTI_PROCESSING_DEVICE; with no local
\* worker every device of the global map is locally owned. Refuted under
\* SpecCreate: IsLocalDevice compares the ordinal of the multi-processing
\* device with the id of the candidate and never the kinds (lines 332-338), so
\* the CPU with the same id on the task is locally owned as well.
C18_LocalDevices ==
  Populated =>
    IF k_env.local_worker = <<>>
      THEN k_options.devices = DOMAIN k_options.global_device_map
    ELSE IF k_env.mp_device = EmptyDevice
      THEN k_options.devices = DevicesOfLocalWorker
      ELSE k_options.devices \subseteq
             DevicesOfLocalWorker \cap {k_env.mp_device}

\* C18, the part that holds: the same without the restriction to the one
\* device; with multi-processing active the locally owned devices are devices
\* of the worker, the multi-processing device among them whenever any is.
C18_LocalDevicesOfWorker ==
  Populated =>
    IF k_env.local_worker = <<>>
      THEN k_options.devices = DOMAIN k_options.global_device_map
    ELSE IF k_env.mp_device = EmptyDevice
      THEN k_options.devices = DevicesOfLocalWorker
      ELSE /\ k_options.devices \subseteq DevicesOfLocalWorker
           /\ \A d \in k_options.devices :
                d.kind = k_env.mp_device.kind => d = k_env.mp_device

\* the process of TPU:0 of a host owns TPU:0 and CPU:0
C18_TwoDevicesWitness ==
  /\ k_pc = "ready"
  /\ k_tried # <<>>
  /\ k_env.mp_device = Device("TPU", 0)
  /\ k_options.devices = {Device("TPU", 0), Device("CPU", 0)}

\* the default device and every locally owned device are in the global map
OptionsInGlobalMap ==
  /\ k_options.default_device \in DOMAIN k_options.global_device_map
  /\ k_options.devices \subseteq DOMAIN k_options.global_device_map

\* C19: the construction ends fatally, with the handle releaser not started
\* and no device registered, when the default device or a locally owned device
\* is not in the global device map; this includes the options of a Create that
\* found no locally owned device, whose default device is the empty name.
C19_ChecksBeforeStart ==
  /\ [](k_error \in {"default_device", "missing_device"} =>
          /\ k_pc = "fatal"
          /\ ~OptionsInGlobalMap
          /\ ~k_started
          /\ k_devices = {})
  /\ []((k_started \/ k_devices # {}) =>
          /\ k_options.devices \subseteq DOMAIN k_options.global_device_map
          /\ k_pc # "ready" => OptionsInGlobalMap)
  /\ [][Constructor => (k_pc' = "fatal" <=> ~OptionsInGlobalMap)]_vars
  /\ [][(Constructor /\ k_tried # <<>> /\ k_options.devices = {}) =>
          (k_options.default_device = EmptyDevice /\ k_pc' = "fatal")]_vars

\* a topology was found but none of its devices is of the declared local
\* worker: the default device is empty and the construction ended at its
\* check, nothing started, nothing registered
C19_Witness ==
  /\ k_pc = "fatal"
  /\ k_error = "default_device"
  /\ k_tried # <<>>
  /\ DOMAIN k_options.global_device_map # {}
  /\ k_options.devices = {}
  /\ ~k_started
  /\ k_devices = {}

(***************************************************************************)
(* TransferFromServer (TransferFromServerImpl, lines 764-816).  Handle i   *)
(* (0-based) of the call is f_handles[i + 1]: an XrtData with its device,  *)
(* its server handle and the byte size of its shape.  The session_maps     *)
(* list of the call is counted: session map m is the m-th one emplaced.    *)
(***************************************************************************)
\* the XrtData lists of the model: handle i on some device of the client,
\* with some size, the server handles all different
ReadHandles ==
  LET datas == [device : DOMAIN options.global_device_map,
                size : 0..MaxReadSize]
  IN  {[p \in DOMAIN s |->
          [device |-> s[p].device, size |-> s[p].size,
           handle |-> Len(s) - p + 1]] : s \in SeqsUpTo(datas, MaxReadHandles)}

ReadIdle ==
  /\ f_handles = <<>>
  /\ f_max = 1
  /\ f_pc = "idle"
  /\ f_batch = <<>>
  /\ f_work = <<>>
  /\ f_done = {}
  /\ f_results = <<>>
  /\ f_rpcs = <<>>

ReadInit ==
  /\ f_handles \in ReadHandles
  /\ f_max \in 1..MaxReadCeiling
  /\ f_pc = "call"
  /\ f_batch = <<>>
  /\ f_work = <<>>
  /\ f_done = {}
  /\ f_results = <<>>
  /\ f_rpcs = <<>>

\* a default-constructed Literal
NoLiteral == [data |-> 0]

\* what the server holds under a handle
LiteralOn(handle) == [data |-> handle]

\* the XRT service reading one handle: the serialized LiteralProto
ServerRead(handle) == [proto |-> LiteralOn(handle)]

\* lines 804-808: response.ParseFromString and Literal::CreateFromProto
CreateFromProto(output) == output.proto

\* XrtSessionCache::GetSession(target, session_map) under GetSessionForDevice
\* (lines 1257-1275): the session that session map m holds for the target of
\* the device; two session maps hold different sessions
SessionIn(session_map, device) ==
  [session_map |-> session_map, target |-> GetSessionForDevice(device)]

\* a batch is closed only when the size goes past the ceiling
ReadExceedsStrictly(current_size, shape_size, max_partition_size) ==
  current_size + shape_size > max_partition_size

\* the test of line 777
ReadExceeds(current_size, shape_size, max_partition_size) ==
  current_size + shape_size >= max_partition_size

\* session_work_map[session] of lines 786-792, with the handle fed and the
\* index recorded for one more read node
AddRead(work, session, handle, i) ==
  LET old == IF session \in DOMAIN work THEN work[session]
             ELSE [feed_inputs |-> <<>>, index_mapping |-> <<>>]
  IN  [s \in DOMAIN work \cup {session} |->
         IF s = session
           THEN [feed_inputs |-> Append(old.feed_inputs, handle),
                 index_mapping |-> Append(old.index_mapping, i)]
           ELSE work[s]]

\* lines 773-793: the loop over the handles from handle i on; st holds
\* current_size, the number of session maps, the session map each handle was
\* given and session_work_map
RECURSIVE ReadGroups(_, _, _, _)
ReadGroups(st, handles, i, max_partition_size) ==
  IF i >= Len(handles) THEN st
  ELSE LET xrt_data == handles[i + 1]
           new == ReadExceeds(st.current_size, xrt_data.size,
                              max_partition_size)
           session_maps == IF new THEN st.session_maps + 1
                           ELSE st.session_maps
           session == SessionIn(session_maps, xrt_data.device)
       IN  ReadGroups(
             [current_size |-> (IF new THEN 0 ELSE st.current_size)
                                 + xrt_data.size,
              session_maps |-> session_maps,
              batch |-> Append(st.batch, session_maps),
              work |-> AddRead(st.work, session, xrt_data.handle, i)],
             handles, i + 1, max_partition_size)

\* TransferFromServerImpl up to its second loop, lines 764-796
ReadCall ==
  /\ f_pc = "call"
  /\ LET st == ReadGroups([current_size |-> 0, session_maps |-> 1,
                           batch |-> <<>>, work |-> <<>>],
                          f_handles, 0, f_max)
     IN  /\ f_batch' = st.batch
         /\ f_work' = st.work
         /\ f_rpcs' = [s \in DOMAIN st.work |-> 0]
  /\ f_results' = [p \in DOMAIN f_handles |-> NoLiteral]
  /\ f_pc' = "run"
  /\ UNCHANGED <<f_handles, f_max, f_done>>
  /\ UNCHANGED notRead

\* outputs[i] is stored as the result of handle i
ReadIndexDirect(index_mapping, i) == i

\* line 803: size_t li = session_work.second.index_mapping[i]
ReadIndex(index_mapping, i) == index_mapping[i + 1]

\* lines 798-810: results after the outputs of one session Run
RECURSIVE ReadResults(_, _, _, _)
ReadResults(results, outputs, index_mapping, i) ==
  IF i >= Len(outputs) THEN results
  ELSE ReadResults(
         [results EXCEPT ![ReadIndex(index_mapping, i) + 1] =
            CreateFromProto(outputs[i + 1])],
         outputs, index_mapping, i + 1)

\* one turn of the loop of lines 797-810: the Run of the read nodes of one
\* session and the literals made of its outputs.  The map is ordered by the
\* addresses of the sessions, which is any order.
ReadRun(session) ==
  /\ f_pc = "run"
  /\ session \in DOMAIN f_work \ f_done
  /\ LET session_work == f_work[session]
         outputs == [k \in DOMAIN session_work.feed_inputs |->
                       ServerRead(session_work.feed_inputs[k])]
     IN  f_results' = ReadResults(f_results, outputs,
                                  session_work.index_mapping, 0)
  /\ f_rpcs' = [f_rpcs EXCEPT ![session] = @ + 1]
  /\ f_done' = f_done \cup {session}
  /\ UNCHANGED <<f_handles, f_max, f_pc, f_batch, f_work>>
  /\ UNCHANGED notRead

\* lines 799-801: the Run fails and XLA_CHECK_OK ends the process
ReadRunFail(session) ==
  /\ f_pc = "run"
  /\ session \in DOMAIN f_work \ f_done
  /\ f_rpcs' = [f_rpcs EXCEPT ![session] = @ + 1]
  /\ f_pc' = "failed"
  /\ UNCHANGED <<f_handles, f_max, f_batch, f_work, f_done, f_results>>
  /\ UNCHANGED notRead

\* lines 811-812
ReadReturn ==
  /\ f_pc = "run"
  /\ f_done = DOMAIN f_work
  /\ f_pc' = "returned"
  /\ UNCHANGED <<f_handles, f_max, f_batch, f_work, f_done, f_results,
                 f_rpcs>>
  /\ UNCHANGED notRead

ReadNext ==
  \/ ReadCall
  \/ \E session \in DOMAIN f_work : ReadRun(session)
  \/ \E session \in DOMAIN f_work : ReadRunFail(session)
  \/ ReadReturn

\* the sessions whose Run reads the handle of position p
RpcsOf(p) ==
  {s \in DOMAIN f_work :
     \E k \in DOMAIN f_work[s].feed_inputs :
       f_work[s].feed_inputs[k] = f_handles[p].handle}

\* the total size of the handles of batch b
RECURSIVE BatchSize(_, _)
BatchSize(b, p) ==
  IF p = 0 THEN 0
  ELSE (IF f_batch[p] = b THEN f_handles[p].size ELSE 0) + BatchSize(b, p - 1)

\* C30: when TransferFromServer returns, every handle was read by exactly one
\* RPC, two handles were read by the same RPC exactly when they are of the
\* same batch and the same session target, so that there is one RPC per
\* (batch, session) pair and none spans two batches; the batches are runs of
\* consecutive handles, one of several handles being smaller than the
\* ceiling; and there is one literal per handle, results[i] being what the
\* server holds under handles[i].
C30_OneReadPerBatchAndSession ==
  f_pc = "returned" =>
    /\ \A p \in DOMAIN f_handles : Cardinality(RpcsOf(p)) = 1
    /\ \A s \in DOMAIN f_work :
         /\ f_rpcs[s] = 1
         /\ f_work[s].feed_inputs # <<>>
    /\ \A p, q \in DOMAIN f_handles :
         RpcsOf(p) = RpcsOf(q) <=>
           /\ f_batch[p] = f_batch[q]
           /\ GetSessionForDevice(f_handles[p].device)
                = GetSessionForDevice(f_handles[q].device)
    /\ \A p, q \in DOMAIN f_handles : p <= q => f_batch[p] <= f_batch[q]
    /\ \A p, q \in DOMAIN f_handles :
         p < q /\ f_batch[p] = f_batch[q]
           => BatchSize(f_batch[p], Len(f_handles)) < f_max
    /\ Len(f_results) = Len(f_handles)
    /\ \A p \in DOMAIN f_handles :
         f_results[p] = LiteralOn(f_handles[p].handle)

\* a call has returned after three RPCs: two for the two sessions of a first
\* batch, one for a second batch on a target the first batch also used
C30_Witness ==
  /\ f_pc = "returned"
  /\ Cardinality(DOMAIN f_rpcs) = 3
  /\ \A s \in DOMAIN f_rpcs : f_rpcs[s] = 1
  /\ \E p, q \in DOMAIN f_handles :
       /\ f_batch[p] = f_batch[q]
       /\ RpcsOf(p) # RpcsOf(q)
  /\ \E p, q \in DOMAIN f_handles :
       /\ f_batch[p] # f_batch[q]
       /\ GetSessionForDevice(f_handles[p].device)
            = GetSessionForDevice(f_handles[q].device)

\* the indices after 0 at which TransferFromServerImpl has begun a new batch
ReadBoundaries ==
  {i \in 1..(Len(f_handles) - 1) : f_batch[i + 1] # f_batch[i]}

\* the byte sizes of the handles of the call
ReadSizes == [p \in DOMAIN f_handles |-> f_handles[p].size]

\* C31 (as stated): for the same byte sizes and the same ceiling the batches
\* of TransferFromServerImpl begin where the partitions of
\* PartitionTransferToServer begin; a batch that sums to the ceiling exactly
\* is kept whole by both.  Refuted: line 777 tests >= where line 647 tests >.
C31_SameBoundaries ==
  f_pc \in {"run", "returned", "failed"} =>
    ReadBoundaries = Range(PartitionTransferToServer(ReadSizes, f_max)) \ {0}

\* C31, the part that holds: the batches of TransferFromServerImpl begin
\* where the partitions of PartitionTransferToServer begin for a ceiling
\* smaller by one.
C31_BoundariesOfCeilingLessOne ==
  f_pc \in {"run", "returned", "failed"} =>
    ReadBoundaries
      = Range(PartitionTransferToServer(ReadSizes, f_max - 1)) \ {0}

\* TransferFromServerImpl has split two handles that sum to the ceiling
\* exactly and that PartitionTransferToServer keeps in one partition
C31_SplitsExactFit ==
  /\ f_pc = "returned"
  /\ Len(f_handles) = 2
  /\ f_handles[1].size + f_handles[2].size = f_max
  /\ f_batch[1] # f_batch[2]
  /\ PartitionTransferToServer(ReadSizes, f_max) = <<0>>

(***************************************************************************)
(* The two session pools of the client (constructor, lines 598-603):       *)
(* session_cache_ and alloc_session_cache_.  Every place of the file that  *)
(* takes a session names the pool it takes it from; an operation taking    *)
(* its session for a device is one step, whatever it does with it later.  *)
(***************************************************************************)
\* every place takes its session from session_cache_
SessionCallSitesShared ==
  {[op |-> "TransferToServerInternal", line |-> 721,
    cache |-> "session_cache_"],
   [op |-> "TransferFromServerImpl", line |-> 784, cache |-> "session_cache_"],
   [op |-> "Compile", line |-> 848, cache |-> "session_cache_"],
   [op |-> "ExecuteComputation", line |-> 929, cache |-> "session_cache_"],
   [op |-> "ExecuteChainedXrt", line |-> 1056, cache |-> "session_cache_"],
   [op |-> "ExecuteChainedSplit", line |-> 1143, cache |-> "session_cache_"],
   [op |-> "DeconstructTuple", line |-> 1211, cache |-> "session_cache_"],
   [op |-> "CreateExecuteOps", line |-> 1370, cache |-> "session_cache_"],
   [op |-> "CreateExecuteOps", line |-> 1402, cache |-> "session_cache_"],
   [op |-> "ReleaseHandles", line |-> 1440, cache |-> "session_cache_"]}

\* the calls of GetSessionForDevice and GetSessionForXrtDevice of the file,
\* with the function they are in and the pool they pass
SessionCallSites ==
  {[op |-> "TransferToServerInternal", line |-> 721,
    cache |-> "alloc_session_cache_"],
   [op |-> "TransferFromServerImpl", line |-> 784, cache |-> "session_cache_"],
   [op |-> "Compile", line |-> 848, cache |-> "session_cache_"],
   [op |-> "ExecuteComputation", line |-> 929, cache |-> "session_cache_"],
   [op |-> "ExecuteChainedXrt", line |-> 1056, cache |-> "session_cache_"],
   [op |-> "ExecuteChainedSplit", line |-> 1143, cache |-> "session_cache_"],
   [op |-> "DeconstructTuple", line |-> 1211, cache |-> "session_cache_"],
   [op |-> "CreateExecuteOps", line |-> 1370, cache |-> "session_cache_"],
   [op |-> "CreateExecuteOps", line |-> 1402, cache |-> "session_cache_"],
   [op |-> "ReleaseHandles", line |-> 1440, cache |-> "session_cache_"]}

\* lines 600-603: the two pools, without sessions
PoolInit ==
  /\ g_caches = [cache \in {"session_cache_", "alloc_session_cache_"} |-> {}]
  /\ g_taken = {}
  /\ g_pc = "ready"

PoolIdle ==
  /\ g_caches = <<>>
  /\ g_taken = {}
  /\ g_pc = "off"

\* XrtSessionCache::GetSession(target): the pool holds a session of the target
\* from the first call on
GetSession(sessions, target) == sessions \cup {target}

\* the operation of a call site takes the session of a device from the pool of
\* the call site
TakeSession(site, device) ==
  /\ g_pc = "ready"
  /\ Cardinality(g_taken) < MaxPoolTakes
  /\ g_caches' = [g_caches EXCEPT ![site.cache] =
                    GetSession(@, GetSessionForDevice(device))]
  /\ g_taken' = g_taken \cup
                  {[op |-> site.op, cache |-> site.cache,
                    target |-> GetSessionForDevice(device)]}
  /\ UNCHANGED g_pc
  /\ UNCHANGED notPool

PoolNext ==
  \E site \in SessionCallSites : \E device \in DOMAIN options.global_device_map :
    TakeSession(site, device)

\* C32: the sessions TransferToServerInternal has taken are of
\* alloc_session_cache_ and those of every other operation are of
\* session_cache_, no operation has taken sessions of both pools, and a pool
\* holds sessions only for the targets its own operations asked for.
C32_TwoPools ==
  /\ \A t \in g_taken :
       t.op = "TransferToServerInternal" <=> t.cache = "alloc_session_cache_"
  /\ \A t, u \in g_taken : t.op = u.op => t.cache = u.cache
  /\ \A cache \in DOMAIN g_caches :
       g_caches[cache] = {t.target : t \in {u \in g_taken : u.cache = cache}}

\* a transfer and a compile have each taken the session of the same target,
\* and each pool holds its own
C32_Witness ==
  /\ \E t, u \in g_taken :
       /\ t.op = "TransferToServerInternal"
       /\ u.op = "Compile"
       /\ t.target = u.target
       /\ t.target \in g_caches["alloc_session_cache_"]
       /\ u.target \in g_caches["session_cache_"]

(***************************************************************************)
(* The two phases of TransferToServerInternal and of Compile.  A behaviour *)
(* of SpecBarrier is one of SpecTransfer or one of SpecCompile.            *)
(***************************************************************************)
BarrierNext ==
  \/ t_pc # "off" /\ XferNext
  \/ c_call # <<>> /\ CompNext

\* C33: in a TransferToServerInternal call the allocation RPC is issued only
\* when every converter of the call has completed and fed its tensor, and
\* the call has its results only when its runner has completed; in a Compile
\* call the compile RPC is issued only when every builder of the call has
\* completed, and the call returns only when its runner has made the
\* computation of every output (or has failed).
C33_BarrierSeparatesPhases ==
  /\ [][\A k \in 1..Len(t_inv) :
          (XferRunner(k) \/ XferRunnerFail(k)) =>
            /\ t_inv[k].converters = {}
            /\ Len(t_inv[k].session_work) = t_inv[k].length]_vars
  /\ [](\A k \in 1..Len(t_inv) :
          t_inv[k].pc \in {"ran", "done"} =>
            /\ t_inv[k].converters = {}
            /\ t_inv[k].rpcs = SessionWorkMapSize(t_inv[k].session_work))
  /\ [][\A c \in DOMAIN c_call :
          (SessionRunnerRun(c) \/ SessionRunnerFail(c)) =>
            c_call[c].built = 1..Len(c_call[c].instances)]_vars
  /\ [][\A c \in DOMAIN c_call :
          CompileReturn(c) =>
            /\ c_call[c].built = 1..Len(c_call[c].instances)
            /\ c_call[c].index_mapping # <<>> =>
                 c_call[c].output_index = Len(c_call[c].index_mapping) + 1]_vars

\* a TransferToServerInternal call of two tensors has its results after two
\* converters and one RPC
C33_Witness ==
  \E k \in 1..Len(t_inv) :
    /\ t_inv[k].pc = "done"
    /\ t_inv[k].length >= 2
    /\ t_inv[k].rpcs = 1
    /\ \A r \in 1..t_inv[k].length : t_inv[k].results[r] # NoData

\* a Compile call of two instances is about to return after its builders and
\* its runner
C33_CompileAfterBoth ==
  \E c \in DOMAIN c_call :
    /\ c_call[c].pc = "return"
    /\ Len(c_call[c].instances) = 2
    /\ Len(c_call[c].index_mapping) = 2
    /\ c_call[c].output_index = 3

\* some argument of the call is on another device than the one its argument
\* list is executed on
ArgumentElsewhere ==
  \E i \in DOMAIN e_devices : \E k \in DOMAIN e_arguments[i] :
    e_arguments[i][k] # GetEffectiveDevice(e_devices[i])

\* the call names a device that is not in the global device map
NamesAbsentDevice ==
  \E i \in DOMAIN e_devices : ~DeviceInMap(e_devices[i])

\* C34: a call of ExecuteComputation, ExecuteReplicated or ExecuteParallel
\* with an argument on another device than the one its argument list is
\* executed on, or with a device that is not in the global device map, never
\* gets past its checks: it is waiting to be made or has failed its check, no
\* run RPC was issued and no runner was scheduled.
C34_FailsBeforeAnyRun ==
  (ArgumentElsewhere \/ NamesAbsentDevice) =>
    /\ e_pc \in {"call", "call_one", "check_failed", "check_failed_one"}
    /\ e_rpcs = <<>>
    /\ e_runners = <<>>

\* a call of two replicas whose first is sound and whose second has its
\* argument on another device has failed its check
C34_Witness ==
  /\ e_pc = "check_failed"
  /\ Len(e_devices) = 2
  /\ DeviceInMap(e_devices[1])
  /\ ArgumentsOnDevice(e_arguments[1], e_devices[1])
  /\ DeviceInMap(e_devices[2])
  /\ e_arguments[2] # <<>>
  /\ e_arguments[2][1] # GetEffectiveDevice(e_devices[2])
  /\ e_rpcs = <<>>

\* a call of ExecuteComputation for a device that is not in the global device
\* map has failed its check
C34_AbsentDeviceRejected ==
  /\ e_pc = "check_failed_one"
  /\ e_devices = <<AbsentDevice>>
  /\ e_rpcs = <<>>

\* the last op that has op j among its inputs
LastConsumerOf(ops, j) ==
  CHOOSE c \in ConsumersOf(ops, j) : \A d \in ConsumersOf(ops, j) : d <= c

\* C36: in split mode, for ops whose inputs all name earlier ops: when the
\* loop is at op i the tracked outputs of every producer of op i are the
\* outputs that producer made, so that no input of op i fails its checks; a
\* turn of the loop clears the outputs of a producer only when its op is the
\* last consumer of that producer, and clears them then; the outputs of a
\* processed op that no op consumes stay as they were made.
C36_ProducersPresentUntilLastUse ==
  /\ [](x_split_mode /\ ~HasForwardInput(x_ops) /\ x_pc = "loop"
          /\ x_i < Len(x_ops) =>
          \A k \in DOMAIN x_ops[x_i + 1].inputs :
            LET j == x_ops[x_i + 1].inputs[k]
            IN  /\ x_ops_outputs[j + 1] = SplitOutputsOf(j)
                /\ x_ops_outputs[j + 1] # <<>>
                /\ x_uses[j + 1] >= CountOf(x_ops[x_i + 1].inputs, j))
  /\ [][SplitOpCheckFails => HasForwardInput(x_ops)]_vars
  /\ [][SplitOp /\ ~HasForwardInput(x_ops) =>
          \A j \in 0..(Len(x_ops) - 1) :
            (x_ops_outputs'[j + 1] = <<>> /\ j < x_i) <=>
              \/ x_ops_outputs[j + 1] = <<>> /\ j < x_i
              \/ /\ ConsumersOf(x_ops, j) # {}
                 /\ x_i = LastConsumerOf(x_ops, j)]_vars
  /\ [](x_split_mode /\ ~HasForwardInput(x_ops)
          /\ x_pc \in {"loop", "returned", "run_failed", "check_failed"} =>
          \A j \in 0..(x_i - 1) :
            ConsumersOf(x_ops, j) = {} =>
              x_ops_outputs[j + 1] = SplitOutputsOf(j))

\* a split-mode call has returned whose last op consumed the same producer
\* twice: the outputs of the producer were present for it and are cleared
C36_Witness ==
  /\ x_split_mode
  /\ x_pc = "returned"
  /\ ~HasForwardInput(x_ops)
  /\ \E j \in 0..(Len(x_ops) - 1) :
       /\ CountOf(x_ops[Len(x_ops)].inputs, j) = 2
       /\ x_ops_outputs[j + 1] = <<>>
       /\ x_uses[j + 1] = 0
  /\ \E j \in 0..(Len(x_ops) - 1) :
       /\ ConsumersOf(x_ops, j) = {}
       /\ x_ops_outputs[j + 1] # <<>>

\* the handles of a list of DeviceHandle
HandlesOf(handles) == {handles[k].handle : k \in DOMAIN handles}

\* the handles of the groups that releaser thread t has drained and not sent
HandlesDrainedBy(t) ==
  IF r_run[t].pc = "rpc"
    THEN UNION {HandlesOf(r_run[t].sessions[ss]) : ss \in DOMAIN r_run[t].sessions}
    ELSE {}

\* C37: the pending data list holds data handles only and the pending compile
\* list compilation handles only; a release RPC of the release-allocation
\* operation carries data handles only, one of the release-compilation
\* operation compilation handles only; a releaser pass begins with the data
\* list and turns to the compile list only when it has drained the data list
\* and sent every group of it, and ends after the compile list.
C37_KindsNotMixed ==
  /\ [](/\ HandlesOf(released_data_handles) \subseteq DOMAIN r_token
        /\ HandlesOf(released_compile_handles) \subseteq ComputationHandles
        /\ \A t \in DOMAIN r_run :
             /\ r_run[t].kind = "data" => HandlesDrainedBy(t) \subseteq DOMAIN r_token
             /\ r_run[t].kind = "compile" =>
                  HandlesDrainedBy(t) \subseteq ComputationHandles)
  /\ [][\A t \in DOMAIN r_run : \A session \in Targets :
          RunnerRpc(t, session) \/ RunnerRpcFail(t, session) =>
            IF r_run[t].kind = "data"
              THEN HandlesOf(r_run[t].sessions[session]) \subseteq DOMAIN r_token
              ELSE HandlesOf(r_run[t].sessions[session])
                     \subseteq ComputationHandles]_vars
  /\ [][\A t \in DOMAIN r_run :
          /\ r_run[t].pc = "idle" /\ r_run'[t].pc # "idle" =>
               r_run'[t].pc = "swap" /\ r_run'[t].kind = "data"
          /\ r_run[t].kind = "data" /\ r_run'[t].kind = "compile" =>
               /\ r_run'[t].pc = "swap"
               /\ \/ /\ r_run[t].pc = "swap"
                     /\ released_data_handles' = <<>>
                  \/ /\ r_run[t].pc = "rpc"
                     /\ Cardinality(DOMAIN r_run[t].sessions) = 1
          /\ r_run[t].kind = "compile" /\ r_run'[t].kind = "data" =>
               r_run'[t].pc = "idle"]_vars

\* a releaser pass has sent a data handle with the release-allocation
\* operation and has then drained a compilation handle, which it is about to
\* send with the release-compilation operation
C37_Witness ==
  \E t \in DOMAIN r_run :
    /\ r_run[t].pc = "rpc"
    /\ r_run[t].kind = "compile"
    /\ HandlesDrainedBy(t) # {}
    /\ \E h \in DOMAIN r_token : r_rpcs["data"][h] = 1

(***************************************************************************)
(* What an execution releases.  A behaviour of SpecExecuting is one call   *)
(* of ExecuteComputation, ExecuteReplicated, ExecuteParallel or            *)
(* ExecuteChained.  The server releases the inputs of an execute request   *)
(* when its config says release_input_handles, and the program when it     *)
(* says release_compilation_handle; the config of a chained plan has       *)
(* neither field.                                                          *)
(***************************************************************************)
ExecutingNext ==
  \/ ExecCheckedNext
  \/ ChainNext

\* the arguments (by position) and the program that the server releases for
\* one execute request
ReleasedByRun(exec_config, computation, inputs) ==
  (IF exec_config.release_input_handles
     THEN {<<"input", k>> : k \in DOMAIN inputs} ELSE {})
  \cup (IF exec_config.release_compilation_handle
          THEN {<<"computation", computation>>} ELSE {})

\* lines 1164-1167: the execute request of op i of ExecuteChainedSplit, made by
\* CreateExecuteOps with explode_tuple
SplitRequest(i) ==
  [computation |-> i,
   exec_config |-> XRTExecutionConfig(TRUE),
   inputs |-> x_ops[i + 1].inputs]

C35_SplitRan ==
  /\ x_split_mode
  /\ x_pc = "returned"
  /\ \E k \in DOMAIN x_rpcs : x_ops[x_rpcs[k] + 1].inputs # <<>>

(***************************************************************************)
(* DeconstructTuple (lines 1201-1255).  A sub-tuple node is the record     *)
(* [handle, index] of what is fed to it; every call of GetSubTupleNode     *)
(* gives a node of its own.  The handle the server returns for a node is   *)
(* the record [tuple, index].                                              *)
(***************************************************************************)
DeconIdle ==
  /\ d_tuples = <<>>
  /\ d_pc = "idle"
  /\ d_work = <<>>
  /\ d_done = {}
  /\ d_results = <<>>
  /\ d_rpcs = <<>>

\* the tuple shapes of the model: n elements, f32 and s32 in turn
DeconstructShapes ==
  {TupleShape([k \in 1..n |-> IF k % 2 = 1 THEN "f32" ELSE "s32"]) :
     n \in 0..MaxTupleElements}

DeconInit ==
  /\ d_tuples \in SeqsUpTo([device : DOMAIN options.global_device_map,
                            shape : DeconstructShapes,
                            handle : 1..MaxTupleHandles], MaxTuples)
  /\ d_pc = "call"
  /\ d_work = <<>>
  /\ d_done = {}
  /\ d_results = <<>>
  /\ d_rpcs = <<>>

\* ShapeUtil::TupleElementCount
TupleElementCount(shape) == Len(shape.elements)

\* lines 1211-1230: session_work_map[session] with tuple i recorded and one
\* sub-tuple node per element of the tuple
AddSubTuples(work, session, xrt_data, i) ==
  LET old == IF session \in DOMAIN work THEN work[session]
             ELSE [index_mapping |-> <<>>, outputs_handles |-> <<>>]
      nodes == [j \in 1..TupleElementCount(xrt_data.shape) |->
                  [handle |-> xrt_data.handle, index |-> j - 1]]
  IN  [s \in DOMAIN work \cup {session} |->
         IF s = session
           THEN [index_mapping |-> Append(old.index_mapping, i),
                 outputs_handles |-> old.outputs_handles \o nodes]
           ELSE work[s]]

\* lines 1208-1231: the first loop, from tuple i on
RECURSIVE DeconstructWork(_, _, _)
DeconstructWork(work, tuples, i) ==
  IF i >= Len(tuples) THEN work
  ELSE DeconstructWork(
         AddSubTuples(work, GetSessionForDevice(tuples[i + 1].device),
                      tuples[i + 1], i),
         tuples, i + 1)

\* the server's XRTSubTuple: the handle of element index of the tuple
XRTSubTuple(node) == [tuple |-> node.handle, index |-> node.index]

\* the outputs are read from the start for every tuple of the session
OutputIndexOfTuple(output_index, i) == i

\* lines 1243-1248: the place in outputs of element i of the tuple whose
\* elements begin at output_index
OutputIndex(output_index, i) == output_index + i

\* lines 1241-1252: results after the tuples of index_mapping, the outputs of
\* the first of them beginning at output_index
RECURSIVE TupleResults(_, _, _, _)
TupleResults(results, outputs, index_mapping, output_index) ==
  IF index_mapping = <<>> THEN results
  ELSE LET li == Head(index_mapping)
           xrt_data == d_tuples[li + 1]
           count == TupleElementCount(xrt_data.shape)
           tuple_results ==
             [k \in 1..count |->
                [device |-> xrt_data.device,
                 shape |-> GetTupleElementShape(xrt_data.shape, k - 1),
                 handle |-> outputs[OutputIndex(output_index, k - 1) + 1]]]
       IN  TupleResults([results EXCEPT ![li + 1] = tuple_results], outputs,
                        Tail(index_mapping), output_index + count)

\* lines 1205-1233: the first loop and the empty results
DeconstructCall ==
  /\ d_pc = "call"
  /\ d_work' = DeconstructWork(<<>>, d_tuples, 0)
  /\ d_results' = [i \in 1..Len(d_tuples) |-> <<>>]
  /\ d_pc' = "run"
  /\ UNCHANGED <<d_tuples, d_done, d_rpcs>>
  /\ UNCHANGED notDecon

\* lines 1234-1253: the turn of one session in the second loop, its Run
\* succeeds
DeconstructRun(session) ==
  /\ d_pc = "run"
  /\ session \in DOMAIN d_work \ d_done
  /\ LET session_work == d_work[session]
         outputs == [k \in DOMAIN session_work.outputs_handles |->
                       XRTSubTuple(session_work.outputs_handles[k])]
     IN  /\ d_rpcs' = Append(d_rpcs,
                             [session |-> session,
                              outputs_handles |-> session_work.outputs_handles])
         /\ d_results' = TupleResults(d_results, outputs,
                                      session_work.index_mapping, 0)
  /\ d_done' = d_done \cup {session}
  /\ UNCHANGED <<d_tuples, d_pc, d_work>>
  /\ UNCHANGED notDecon

\* lines 1236-1238: the Run of a session fails and XLA_CHECK_OK ends the
\* process
DeconstructRunFail(session) ==
  /\ d_pc = "run"
  /\ session \in DOMAIN d_work \ d_done
  /\ d_rpcs' = Append(d_rpcs,
                      [session |-> session,
                       outputs_handles |-> d_work[session].outputs_handles])
  /\ d_pc' = "aborted"
  /\ UNCHANGED <<d_tuples, d_work, d_done, d_results>>
  /\ UNCHANGED notDecon

\* line 1254: every session had its turn
DeconstructReturn ==
  /\ d_pc = "run"
  /\ d_done = DOMAIN d_work
  /\ d_pc' = "returned"
  /\ UNCHANGED <<d_tuples, d_work, d_done, d_results, d_rpcs>>
  /\ UNCHANGED notDecon

DeconNext ==
  \/ DeconstructCall
  \/ \E session \in Targets : DeconstructRun(session)
  \/ \E session \in Targets : DeconstructRunFail(session)
  \/ DeconstructReturn

\* C38: what DeconstructTuple returns has one entry per tuple, in the order of
\* the tuples; entry i has one XrtData per element of the shape of tuple i, on
\* the device of the tuple, and element j has the shape of tuple element j and
\* the handle the server returned for sub-tuple j of the handle of tuple i.
C38_ElementsOfEachTuple ==
  d_pc = "returned" =>
    /\ Len(d_results) = Len(d_tuples)
    /\ \A i \in DOMAIN d_tuples :
         /\ Len(d_results[i]) = Len(d_tuples[i].shape.elements)
         /\ \A j \in DOMAIN d_results[i] :
              d_results[i][j] =
                [device |-> d_tuples[i].device,
                 shape |-> ArrayShape(d_tuples[i].shape.elements[j]),
                 handle |-> [tuple |-> d_tuples[i].handle, index |-> j - 1]]

\* two tuples of different handles, on different devices of one session, the
\* first of two elements and the second of at least one, were deconstructed
\* in one RPC
C38_Witness ==
  /\ d_pc = "returned"
  /\ Len(d_tuples) = 2
  /\ d_tuples[1].device # d_tuples[2].device
  /\ d_tuples[1].handle # d_tuples[2].handle
  /\ Len(d_tuples[1].shape.elements) = 2
  /\ Len(d_tuples[2].shape.elements) >= 1
  /\ Len(d_rpcs) = 1

\* the same with the two devices in two sessions: two RPCs
C38_TwoSessions ==
  /\ d_pc = "returned"
  /\ Len(d_tuples) = 2
  /\ Len(d_tuples[1].shape.elements) = 2
  /\ Len(d_tuples[2].shape.elements) >= 1
  /\ Len(d_rpcs) = 2

(***************************************************************************)
(* TensorAllocator (lines 138-260).  A block is a number; AllocateRaw and  *)
(* DeallocateRaw hold lock_ from their first access to the allocator's     *)
(* state to their end, so each is one step.                                *)
(***************************************************************************)
NoCall == [op |-> "none", key |-> <<>>, block |-> 0, freed |-> <<>>]

AllocIdle ==
  /\ a_max = 0
  /\ a_size = 0
  /\ a_list = <<>>
  /\ a_allocs = {}
  /\ a_header = <<>>
  /\ a_used = {}
  /\ a_last = NoCall

AllocInit ==
  /\ a_max \in {PointerSize * m : m \in 1..MaxCacheWords}
  /\ a_size = 0
  /\ a_list = <<>>
  /\ a_allocs = {}
  /\ a_header = <<>>
  /\ a_used = {}
  /\ a_last = NoCall

\* the alignments and sizes AllocateRaw is called with: an alignment below
\* sizeof(void*) and one above, one byte and two multiples of sizeof(void*)
Alignments == {1, 2 * PointerSize}

RequestSizes == {1, PointerSize, 2 * PointerSize}

\* RoundUpTo(value, divisor)
RoundUpTo(value, divisor) == ((value + divisor - 1) \div divisor) * divisor

\* lines 178-182: the key of a request
AllocKey(alignment, num_bytes) ==
  LET aligned == IF alignment > PointerSize THEN alignment ELSE PointerSize
  IN  [alignment |-> aligned, num_bytes |-> RoundUpTo(num_bytes, aligned)]

\* the place in alloc_list_ of the AllocBlocks of the key
PlaceOf(list, alloc_key) ==
  CHOOSE p \in DOMAIN list : list[p].alloc_key = alloc_key

\* line 195: alloc_list_.splice(alloc_list_.begin(), alloc_list_, it->second)
MoveToFront(list, p) ==
  <<list[p]>> \o SubSeq(list, 1, p - 1) \o SubSeq(list, p + 1, Len(list))

\* a block as large as the cache is cached too
CachedUpToMax(num_bytes, max_size) == num_bytes <= max_size

\* line 211: the test of DeallocateRaw for keeping the block
Cached(num_bytes, max_size) == num_bytes < max_size

\* lines 244-253 with 237-242: st is [size, list, freed]; the loop of TrimCache
\* from the AllocBlocks at place p towards the front
RECURSIVE TrimFrom(_, _, _, _)
TrimFrom(st, p, num_bytes, max_size) ==
  IF ~(st.size + num_bytes > max_size) \/ p = 0 THEN st
  ELSE IF st.list[p].blocks # <<>>
    THEN LET blocks == st.list[p].blocks
         IN  TrimFrom([size |-> st.size - st.list[p].alloc_key.num_bytes,
                       list |-> [st.list EXCEPT ![p].blocks =
                                   SubSeq(blocks, 1, Len(blocks) - 1)],
                       freed |-> Append(st.freed, blocks[Len(blocks)])],
                      p, num_bytes, max_size)
    ELSE TrimFrom(st, p - 1, num_bytes, max_size)

\* the loop run from the front of alloc_list_ towards its back
RECURSIVE TrimFromFront(_, _, _, _)
TrimFromFront(st, p, num_bytes, max_size) ==
  IF ~(st.size + num_bytes > max_size) \/ p > Len(st.list) THEN st
  ELSE IF st.list[p].blocks # <<>>
    THEN LET blocks == st.list[p].blocks
         IN  TrimFromFront([size |-> st.size - st.list[p].alloc_key.num_bytes,
                            list |-> [st.list EXCEPT ![p].blocks =
                                        SubSeq(blocks, 1, Len(blocks) - 1)],
                            freed |-> Append(st.freed, blocks[Len(blocks)])],
                           p, num_bytes, max_size)
    ELSE TrimFromFront(st, p + 1, num_bytes, max_size)

\* the cache is trimmed from the most recently used key on
TrimCacheMostRecentFirst(size, list, num_bytes, max_size) ==
  TrimFromFront([size |-> size, list |-> list, freed |-> <<>>], 1, num_bytes,
                max_size)

\* TrimCache, lines 244-253
TrimCache(size, list, num_bytes, max_size) ==
  TrimFrom([size |-> size, list |-> list, freed |-> <<>>], Len(list),
           num_bytes, max_size)

\* the pointer that allocate() returns: one that no allocated block has
FreshBlock(header) ==
  CHOOSE b \in 1..(Cardinality(DOMAIN header) + 1) : b \notin DOMAIN header

\* AllocateRaw, lines 175-206, with NewBlock (224-235) and TrimCache
AllocateRaw(alignment, num_bytes) ==
  /\ Cardinality(a_used) < MaxInUse
  /\ LET alloc_key == AllocKey(alignment, num_bytes)
         found == alloc_key \in a_allocs
         list == IF found THEN MoveToFront(a_list, PlaceOf(a_list, alloc_key))
                 ELSE <<[alloc_key |-> alloc_key, blocks |-> <<>>]>> \o a_list
         blocks == list[1].blocks
     IN  /\ a_allocs' = a_allocs \cup {alloc_key}
         /\ IF blocks # <<>>
              THEN /\ a_list' = [list EXCEPT ![1].blocks =
                                   SubSeq(blocks, 1, Len(blocks) - 1)]
                   /\ a_used' = a_used \cup {blocks[Len(blocks)]}
                   /\ a_last' = [op |-> "reuse", key |-> alloc_key,
                                 block |-> blocks[Len(blocks)], freed |-> <<>>]
                   /\ UNCHANGED <<a_size, a_header>>
              ELSE LET st == TrimCache(a_size, list, alloc_key.num_bytes, a_max)
                       kept == [b \in DOMAIN a_header \
                                  {st.freed[k] : k \in DOMAIN st.freed} |->
                                  a_header[b]]
                       block == FreshBlock(kept)
                   IN  /\ a_list' = st.list
                       /\ a_size' = st.size + alloc_key.num_bytes
                       /\ a_header' = [b \in DOMAIN kept \cup {block} |->
                                         IF b = block THEN alloc_key
                                         ELSE kept[b]]
                       /\ a_used' = a_used \cup {block}
                       /\ a_last' = [op |-> "new", key |-> alloc_key,
                                     block |-> block, freed |-> st.freed]
  /\ UNCHANGED a_max
  /\ UNCHANGED notAlloc

\* DeallocateRaw, lines 208-219, with FreeBlock (237-242), for a block that a
\* caller holds
DeallocateRaw(ptr) ==
  /\ ptr \in a_used
  /\ a_used' = a_used \ {ptr}
  /\ LET alloc_key == a_header[ptr]
     IN  IF Cached(alloc_key.num_bytes, a_max)
           THEN /\ a_list' = [a_list EXCEPT
                                ![PlaceOf(a_list, alloc_key)].blocks =
                                  Append(@, ptr)]
                /\ a_last' = [op |-> "cache", key |-> alloc_key,
                              block |-> ptr, freed |-> <<>>]
                /\ UNCHANGED <<a_size, a_header>>
           ELSE /\ a_size' = a_size - alloc_key.num_bytes
                /\ a_header' = [b \in DOMAIN a_header \ {ptr} |-> a_header[b]]
                /\ a_last' = [op |-> "free", key |-> alloc_key,
                              block |-> ptr, freed |-> <<ptr>>]
                /\ UNCHANGED a_list
  /\ UNCHANGED <<a_max, a_allocs>>
  /\ UNCHANGED notAlloc

AllocNext ==
  \/ \E alignment \in Alignments : \E num_bytes \in RequestSizes :
       AllocateRaw(alignment, num_bytes)
  \/ \E ptr \in a_used : DeallocateRaw(ptr)

\* A step with a_used' # a_used and a_last'.op "new" or "reuse" is a call of
\* AllocateRaw for the key a_last'.key.

\* the blocks in the free lists of alloc_list_
CachedBlocks(list) ==
  UNION {{list[p].blocks[k] : k \in DOMAIN list[p].blocks} : p \in DOMAIN list}

\* the sum of the rounded sizes of the blocks of the set
RECURSIVE BytesOf(_)
BytesOf(blocks) ==
  IF blocks = {} THEN 0
  ELSE LET b == CHOOSE b \in blocks : TRUE
       IN  a_header[b].num_bytes + BytesOf(blocks \ {b})

C40_TrimFromLeastRecentlyUsed ==
  /\ [][a_last'.op = "new" /\ a_used' # a_used =>
            LET freed == {a_last'.freed[k] : k \in DOMAIN a_last'.freed}
                LostOne(p) == \E b \in freed : a_header[b] = a_list'[p].alloc_key
            IN  /\ freed \subseteq CachedBlocks(a_list)
                /\ CachedBlocks(a_list') = CachedBlocks(a_list) \ freed
                /\ a_used \subseteq a_used'
                /\ \A b \in a_used : a_header'[b] = a_header[b]
                /\ a_size' <= a_max \/ CachedBlocks(a_list') = {}
                /\ \A p \in DOMAIN a_list' : \A q \in DOMAIN a_list' :
                     p < q /\ a_list'[q].blocks # <<>> => ~LostOne(p)
                /\ \A p \in 2..Len(a_list') : \A q \in 2..Len(a_list') :
                     p < q =>
                       PlaceOf(a_list, a_list'[p].alloc_key)
                         < PlaceOf(a_list, a_list'[q].alloc_key)]_vars
  /\ [](/\ {a_list[p].alloc_key : p \in DOMAIN a_list} = a_allocs
        /\ \A p \in DOMAIN a_list : \A q \in DOMAIN a_list :
             a_list[p].alloc_key = a_list[q].alloc_key => p = q)
  /\ [][a_allocs \subseteq a_allocs']_vars

\* a new block was made after trimming freed the cached block of the least
\* recently used key and left the one of a key used after it, with a block in
\* use all along
C40_Witness ==
  /\ a_last.op = "new"
  /\ Len(a_last.freed) = 1
  /\ Len(a_list) = 3
  /\ a_list[3].blocks = <<>>
  /\ a_list[2].blocks # <<>>
  /\ a_size <= a_max
  /\ Cardinality(a_used) = 2

\* a new block was made after trimming freed every cached block, and size_
\* plus n is still more than max_size_
C40_TrimmedAll ==
  /\ a_last.op = "new"
  /\ a_last.freed # <<>>
  /\ CachedBlocks(a_list) = {}
  /\ a_size > a_max

(***************************************************************************)
(* The specifications: each runs one part, the other parts stay idle.      *)
(***************************************************************************)
NoOptions == [global_device_map |-> <<>>, workers_map |-> <<>>,
              default_device |-> EmptyDevice]

InitPartition ==
  /\ options = NoOptions
  /\ PartInit /\ XferIdle /\ RelIdle /\ CompIdle /\ ChainIdle /\ ExecIdle
  /\ CreateIdle /\ ReadIdle
  /\ PoolIdle
  /\ KindIdle
  /\ DeconIdle
  /\ AllocIdle

SpecPartition == InitPartition /\ [][PartNext]_vars

InitTransfer ==
  /\ options = NoOptions
  /\ XferInit /\ PartIdle /\ RelIdle /\ CompIdle /\ ChainIdle /\ ExecIdle
  /\ CreateIdle /\ ReadIdle
  /\ PoolIdle
  /\ KindIdle
  /\ DeconIdle
  /\ AllocIdle

SpecTransfer == InitTransfer /\ [][XferNext]_vars

InitHandles ==
  /\ options \in TwoDeviceTopologies
  /\ RelInit /\ PartIdle /\ XferIdle /\ CompIdle /\ ChainIdle /\ ExecIdle
  /\ CreateIdle /\ ReadIdle
  /\ PoolIdle
  /\ KindIdle
  /\ DeconIdle
  /\ AllocIdle

SpecHandles == InitHandles /\ [][RelNext]_vars

\* The releaser threads keep running: a thread that can take a step of its
\* pass eventually takes one.
SpecHandlesFair ==
  SpecHandles /\ \A t \in ReleaserThreads : WF_vars(RunnerStep(t))

InitCompile ==
  /\ options \in TwoDeviceTopologies
  /\ CompInit /\ PartIdle /\ XferIdle /\ RelIdle /\ ChainIdle /\ ExecIdle
  /\ CreateIdle /\ ReadIdle
  /\ PoolIdle
  /\ KindIdle
  /\ DeconIdle
  /\ AllocIdle

SpecCompile == InitCompile /\ [][CompNext]_vars

InitChained ==
  /\ options = NoOptions
  /\ ChainInit /\ PartIdle /\ XferIdle /\ RelIdle /\ CompIdle /\ ExecIdle
  /\ CreateIdle /\ ReadIdle
  /\ PoolIdle
  /\ KindIdle
  /\ DeconIdle
  /\ AllocIdle

SpecChained == InitChained /\ [][ChainNext]_vars

InitExec ==
  /\ options \in TwoDeviceTopologies
  /\ ExecInit /\ PartIdle /\ XferIdle /\ RelIdle /\ CompIdle /\ ChainIdle
  /\ CreateIdle /\ ReadIdle
  /\ PoolIdle
  /\ KindIdle
  /\ DeconIdle
  /\ AllocIdle

SpecExec == InitExec /\ [][ExecNext]_vars

InitCreate ==
  /\ options = NoOptions
  /\ CreateInit /\ PartIdle /\ XferIdle /\ RelIdle /\ CompIdle /\ ChainIdle
  /\ ExecIdle /\ ReadIdle
  /\ PoolIdle
  /\ KindIdle
  /\ DeconIdle
  /\ AllocIdle

SpecCreate == InitCreate /\ [][CreateNext]_vars

InitRead ==
  /\ options \in TwoDeviceTopologies
  /\ ReadInit /\ PartIdle /\ XferIdle /\ RelIdle /\ CompIdle /\ ChainIdle
  /\ ExecIdle /\ CreateIdle
  /\ PoolIdle
  /\ KindIdle
  /\ DeconIdle
  /\ AllocIdle

SpecRead == InitRead /\ [][ReadNext]_vars

InitPools ==
  /\ options \in TwoDeviceTopologies
  /\ PoolInit /\ PartIdle /\ XferIdle /\ RelIdle /\ CompIdle /\ ChainIdle
  /\ ExecIdle /\ CreateIdle /\ ReadIdle
  /\ KindIdle
  /\ DeconIdle
  /\ AllocIdle

SpecPools == InitPools /\ [][PoolNext]_vars

InitAllocator ==
  /\ options = NoOptions
  /\ AllocInit /\ PartIdle /\ XferIdle /\ RelIdle /\ CompIdle /\ ChainIdle
  /\ ExecIdle /\ CreateIdle /\ ReadIdle /\ PoolIdle /\ KindIdle /\ DeconIdle

SpecAllocator == InitAllocator /\ [][AllocNext]_vars

InitDeconstruct ==
  /\ options \in TwoDeviceTopologies
  /\ DeconInit /\ PartIdle /\ XferIdle /\ RelIdle /\ CompIdle /\ ChainIdle
  /\ ExecIdle /\ CreateIdle /\ ReadIdle /\ PoolIdle /\ KindIdle
  /\ AllocIdle

SpecDeconstruct == InitDeconstruct /\ [][DeconNext]_vars

InitKinds ==
  /\ options \in TwoDeviceTopologies
  /\ RelInit /\ KindInit /\ PartIdle /\ XferIdle /\ CompIdle /\ ChainIdle
  /\ ExecIdle /\ CreateIdle /\ ReadIdle /\ PoolIdle
  /\ DeconIdle
  /\ AllocIdle

SpecKinds == InitKinds /\ [][KindNext]_vars

InitExecChecked ==
  /\ options \in TwoDeviceTopologies
  /\ ExecCheckedInit /\ PartIdle /\ XferIdle /\ RelIdle /\ CompIdle /\ ChainIdle
  /\ CreateIdle /\ ReadIdle
  /\ PoolIdle
  /\ KindIdle
  /\ DeconIdle
  /\ AllocIdle

SpecExecChecked == InitExecChecked /\ [][ExecCheckedNext]_vars

InitExecuting == InitExecChecked \/ InitChained

SpecExecuting == InitExecuting /\ [][ExecutingNext]_vars

InitBarrier == InitTransfer \/ InitCompile

SpecBarrier == InitBarrier /\ [][BarrierNext]_vars

=============================================================================
